---- MODULE Spec2Model ----
(***************************************************************************)
(* A model of the resilience layer of devrev-backfill:                     *)
(*   - processing/batch.py      BatchProcessor.process_batch               *)
(*   - core/circuit_breaker.py  CircuitBreaker                             *)
(*   - core/rate_limiter.py     RateLimiter.acquire                        *)
(*   - core/retry.py            async_retry                                *)
(*   - core/cache.py            Cache, CacheEntry                          *)
(*   - devrev_client.py         DevRevClient.get_user_groups,              *)
(*                              DevRevClient.update_issue_creator_group,   *)
(*                              DevRevClient.get_groups                    *)
(*   - processors/issue_processor.py  IssueProcessor                       *)
(*   - main.py                  BackfillProcessor, main                    *)
(*   - core/validation.py       DataValidator.validate_issue               *)
(*   - core/checkpoint.py       CheckpointHandler                          *)
(*   - core/bulk_processor.py   BulkProcessor.process_items                *)
(*   - data_source.py           CSVDataSource                              *)
(*   - processing/integrity.py  DataIntegrityChecker.verify_updates        *)
(* Each component has its own specification (SpecBatch, SpecCB,            *)
(* SpecCBLive, SpecCBConc, SpecRL, SpecRLFair, SpecRetry, SpecCache,       *)
(* SpecClient, SpecIP, SpecGate, SpecBF, SpecVal, SpecCP, SpecBulk,        *)
(* SpecCSV, SpecGG); the variables of the other components stay at their   *)
(* initial value in it.                                                    *)
(***************************************************************************)
EXTENDS Integers, Sequences, FiniteSets, TLC

\* ------------------------------------------------------------------ bounds
MaxItems == 4      \* longest item list handed to process_batch
MaxBatch == 3      \* largest batch_size
MaxFail == 2       \* largest max_consecutive_failures
MaxRuns == 2       \* process_batch calls made on one BatchProcessor
MaxThreshold == 2  \* largest failure_threshold of a CircuitBreaker
MaxTimeout == 2    \* largest reset_timeout, in clock ticks
MaxCBTime == 4     \* the breaker's clock runs from 0 to MaxCBTime
MaxCBCalls == 4    \* wrapped calls made on one CircuitBreaker
NCallers == 2      \* concurrent callers of one CircuitBreaker
MaxRLCalls == 2    \* largest calls of a RateLimiter
MaxPeriod == 2     \* largest period of a RateLimiter, in clock ticks
MaxRLTime == 4     \* acquire() is called while the clock is in 0..MaxRLTime
MaxAcquires == 4   \* acquire() calls made on one RateLimiter
NTasks == 2        \* concurrent tasks calling acquire()
MaxRetries == 3    \* largest retries of an async_retry decorator
MaxDelay == 2      \* largest delay of an async_retry decorator, in seconds
BackoffDen == 2    \* backoff is a multiple of 1/BackoffDen
MaxBackoff == 4    \* largest backoff, in units of 1/BackoffDen
JitterSteps == 2   \* random.uniform(0, 0.1) is one of JitterSteps + 1 values
MaxTTL == 2        \* largest ttl of a Cache and of a set(), in clock ticks
MaxCacheTime == 3  \* the cache's clock runs from 0 to MaxCacheTime
MaxCacheOps == 3   \* set/get/clear_expired calls made on one Cache
ClockStep == 1800  \* seconds between two readings of the client's clock
MaxClientTime == 5400  \* the client's clock runs from 0 to MaxClientTime
MaxClientCalls == 2    \* get_user_groups calls made on one DevRevClient
MaxIssues == 3     \* longest issue list handed to IssueProcessor.process_issues
MaxIPBatch == 2    \* largest batch_size of an IssueProcessor
MaxSaves == 2      \* save_checkpoint calls made on one checkpoint file
MaxPosition == 2   \* largest items_processed handed to save_checkpoint
MaxFailures == 3   \* failures a CircuitBreaker that is called for ever counts up to
MaxBulkItems == 3  \* items handed to BulkProcessor.process_items
MaxBulkBatch == 2  \* largest batch_size of a BulkProcessor
MaxRows == 2       \* rows of the CSV file
MaxGGCalls == 6    \* get_groups calls made on one DevRevClient
MaxChunk == 11     \* largest single chunk of valid issues (SpecGate)

\* ----------------------------------------------------------- constants
ClientCacheTTL == 3600 \* DevRevClient.__init__: Cache(ttl=3600)
StopAfterAttempt == 3  \* update_issue_creator_group: stop_after_attempt(3)
SemaphoreValue == 10
GroupsFailureThreshold == 5
GroupsResetTimeout == 60   \* IssueProcessor._process_batch: asyncio.Semaphore(10)

VARIABLES
    \* BatchProcessor (processing/batch.py)
    batch_size,              \* self.batch_size
    max_consecutive_failures,\* self.max_consecutive_failures
    consecutive_failures,    \* self.consecutive_failures
    items,                   \* the items argument of the running call
    bi,                      \* the loop variable i of process_batch
    results,                 \* the local list results
    bpc,                     \* "idle" | "loop" | "returned" | "raised"
    invoked,                 \* process_func invocations of the running call
    outcomes,                \* history: success of every chunk this instance ran
    runs,                    \* process_batch calls started so far
    \* CircuitBreaker (core/circuit_breaker.py)
    failure_threshold,       \* self.failure_threshold
    reset_timeout,           \* self.reset_timeout, in clock ticks
    failures,                \* self.failures
    state,                   \* self.state: "CLOSED" | "OPEN" | "HALF_OPEN"
    last_failure_time,       \* self.last_failure_time (-1: None)
    last_state_change,       \* self.last_state_change
    cnow,                    \* datetime.now(), in clock ticks
    cpc,                     \* where each caller is inside wrapper
    cres,                    \* how each caller's last wrapped call ended
    ctrial,                  \* whether the caller's call was admitted as a trial
    cfail0,                  \* self.failures when the caller's call was admitted
    hist,                    \* history: the result of every completed call
    openedAt,                \* history: when state last changed to OPEN (-1: never)
    \* RateLimiter (core/rate_limiter.py)
    calls,                   \* self.calls
    period,                  \* self.period, in clock ticks
    call_times,              \* self._call_times
    holder,                  \* the task holding self._lock (0: unlocked)
    waiters,                 \* the tasks waiting for self._lock, first come first
    rnow,                    \* datetime.now(), in clock ticks
    rpc,                     \* where each task is inside acquire()
    stamp,                   \* acquire()'s local now, per task
    wake,                    \* when the task's asyncio.sleep is due
    grants,                  \* history: the clock at each return of acquire()
    acquires,                \* history: acquire() calls made so far
    \* async_retry (core/retry.py)
    retries,                 \* the decorator's retries
    delay,                   \* the decorator's delay, in seconds
    backoff,                 \* the decorator's backoff, in units of 1/BackoffDen
    exceptions,              \* the decorator's exceptions: the eligible error kinds
    attempt,                 \* the loop variable attempt of wrapper
    last_exception,          \* wrapper's local last_exception
    ypc,                     \* "idle" | "try" | "sleeping" | "returned" | "raised"
    yres,                    \* what wrapper returned or raised
    invocs,                  \* history: invocations of func by this call
    errs,                    \* history: the error kind each failed attempt raised
    slept,                   \* history: every asyncio.sleep(sleep_time) made
    \* Cache (core/cache.py)
    ttl,                     \* self.ttl, in clock ticks
    store,                   \* self._store: key -> CacheEntry
    know,                    \* datetime.now(), in clock ticks
    kgot,                    \* what the last get() returned
    kop,                     \* the last operation made: its name, key and ttl
    kops,                    \* history: operations made so far
    recent,                  \* history: the entry the most recent set(k) made
    \* DevRevClient.get_user_groups (devrev_client.py)
    cstore,                  \* self.cache._store
    gnow,                    \* datetime.now(), in seconds
    requests,                \* history: users.list requests sent
    gret,                    \* how the last get_user_groups call ended
    gsrc,                    \* where its result came from: "cache" | "network"
    gids,                    \* the user_ids of the last call
    gresp,                   \* the users of the last users.list response
    fetched,                 \* history: id set -> time of its last successful fetch
    gcalls,                  \* history: get_user_groups calls made so far
    \* IssueProcessor (processors/issue_processor.py)
    ip_issues,               \* the issues argument of process_issues
    dry_run,                 \* the dry_run argument of process_issues
    ip_batch_size,           \* self.batch_size
    ip_logger,               \* the class of self.logger
    ip_metrics,              \* the class of self.metrics
    group_map,               \* the ids of the fetched groups (keys of group_map)
    stats,                   \* self.stats: the four counters
    ip_i,                    \* the loop variable i of process_issues
    ip_pc,                   \* "idle" | "gather" | "returned" | "crashed"
    task_pc,                 \* per issue: "pending" | "inflight" | "done" | "raised"
    task_attempt,            \* per issue: attempt number of its update call
    semaphore,               \* the value of _process_batch's local semaphore
    sent,                    \* history: works.update requests sent
    last_update,             \* history: the update call that completed last
    saw401,                  \* history: some update request was answered 401
    bad_updates,             \* history: update calls that returned False or raised
    ip_result,               \* the ProcessingResult process_issues returned
    \* main() and its BackfillProcessor
    bf_issues,               \* what get_issues_missing_creator_group returned
    bf_dry_run,              \* args.dry_run
    bf_batch_size,           \* config.batch_size
    bf_max_failures,         \* config.max_batch_failures, where config has it
    bf_config,               \* the class of config
    bf_client,               \* the class of self.devrev_client
    bf_ready,                \* initialize() and test_connection() succeed
    user_group_map,          \* the user ids get_user_groups returns a group for
    bf_pc,                   \* "main" | "groups" | "batches" | "exited"
    bf_k,                    \* position in issues of the next issue
    bf_consecutive,          \* batch_processor.consecutive_failures
    bf_metrics,              \* self.metrics: successful_updates, failed_updates
    batches_ok,              \* items of the BatchResults with success
    batches_failed,          \* items of the BatchResults without success
    update_calls,            \* history: update calls the client carried out
    failed_calls,            \* history: update calls that returned False or raised
    bf_result,               \* the ProcessingResult process_issues returned
    exit_status,             \* what main() returned
    integrity_result,        \* what verify_updates returned, None when it was not called
    \* DataValidator.validate_issue
    v_issue,                 \* the issue argument
    v_pc,                    \* "called" | "returned"
    v_result,                \* the ValidationResult returned
    \* CheckpointHandler and its checkpoint file
    cp_file,                 \* the checkpoint file: whether it exists, its text
    last_checkpoint,         \* self.last_checkpoint
    cp_pc,                   \* "idle" | "opened" | "writing"
    cp_args,                 \* the arguments of the save_checkpoint call under way
    cp_saves,                \* history: save_checkpoint calls made
    cp_last,                 \* history: the arguments of the last call that returned
    cp_cut,                  \* history: the process ended inside a call since then
    \* BulkProcessor.process_items with a checkpoint handler
    bp_items,                \* len(items); the items are 1..bp_items
    bp_batch_size,           \* self.batch_size
    bp_pc,                   \* "loop" | "returned"
    bp_i,                    \* the loop variable i
    bp_batch,                \* current_batch
    bp_run,                  \* history: 1 in the first run, 2 in the rerun
    bp_resume,               \* history: get_resume_position() when the rerun began
    bp_count,                \* history: per item, the times this run processed it
    \* CSVDataSource
    csv_rows,                \* the rows csv.DictReader yields, in file order
    csv_pc,                  \* "idle" | "returned"
    csv_result,              \* the issue ids returned, in order
    \* DevRevClient.get_groups behind its CircuitBreaker
    gg_calls,                \* get_groups calls made
    gg_fails,                \* history: the latest calls in a row whose request failed
    gg_requests,             \* history: requests sent to groups.list
    gg_last                  \* history: how the latest call ended

batchVars == <<batch_size, max_consecutive_failures, consecutive_failures,
               items, bi, results, bpc, invoked, outcomes, runs>>

cbVars == <<failure_threshold, reset_timeout, failures, state, last_failure_time,
            last_state_change, cnow, cpc, cres, ctrial, cfail0, hist, openedAt>>

rlVars == <<calls, period, call_times, holder, waiters, rnow, rpc, stamp, wake,
            grants, acquires>>

retryVars == <<retries, delay, backoff, exceptions, attempt, last_exception,
               ypc, yres, invocs, errs, slept>>

cacheVars == <<ttl, store, know, kgot, kop, kops, recent>>

clientVars == <<cstore, gnow, requests, gret, gsrc, gids, gresp, fetched, gcalls>>

ipVars == <<ip_issues, dry_run, ip_batch_size, ip_logger, ip_metrics,
            group_map, stats, ip_i, ip_pc,
            task_pc, task_attempt, semaphore, sent, last_update, saw401,
            bad_updates, ip_result>>

bfVars == <<bf_issues, bf_dry_run, bf_batch_size, bf_max_failures, bf_config,
            bf_client, bf_ready, user_group_map, bf_pc, bf_k, bf_consecutive,
            bf_metrics, batches_ok, batches_failed, update_calls, failed_calls,
            bf_result, exit_status, integrity_result>>

valVars == <<v_issue, v_pc, v_result>>

\* the components whose actions touch no variable of another component
cpVars == <<cp_file, last_checkpoint, cp_pc, cp_args, cp_saves, cp_last, cp_cut>>

bulkVars ==
    <<bp_items, bp_batch_size, bp_pc, bp_i, bp_batch, bp_run, bp_resume, bp_count>>
csvVars == <<csv_rows, csv_pc, csv_result>>
ggVars == <<gg_calls, gg_fails, gg_requests, gg_last>>

restVars == <<valVars, cpVars, bulkVars, csvVars, ggVars>>

vars == <<batchVars, cbVars, rlVars, retryVars, cacheVars, clientVars, ipVars,
          bfVars, restVars>>

\* what the actions of one component leave alone
notBatch ==
    <<cbVars, rlVars, retryVars, cacheVars, clientVars, ipVars, bfVars, restVars>>
notCB ==
    <<batchVars, rlVars, retryVars, cacheVars, clientVars, ipVars, bfVars, restVars>>
notRL ==
    <<batchVars, cbVars, retryVars, cacheVars, clientVars, ipVars, bfVars, restVars>>
notRetry ==
    <<batchVars, cbVars, rlVars, cacheVars, clientVars, ipVars, bfVars, restVars>>
notCache ==
    <<batchVars, cbVars, rlVars, retryVars, clientVars, ipVars, bfVars, restVars>>
notIP ==
    <<batchVars, cbVars, rlVars, retryVars, cacheVars, clientVars, bfVars, restVars>>
notBF ==
    <<batchVars, cbVars, rlVars, retryVars, cacheVars, clientVars, ipVars, restVars>>
coreVars ==
    <<batchVars, cbVars, rlVars, retryVars, cacheVars, clientVars, ipVars, bfVars>>
notVal == <<coreVars, cpVars, bulkVars, csvVars, ggVars>>
notCP == <<coreVars, valVars, bulkVars, csvVars, ggVars>>
notBulk == <<coreVars, valVars, csvVars, ggVars>>
notCSV == <<coreVars, valVars, cpVars, bulkVars, ggVars>>
notGG ==
    <<batchVars, rlVars, retryVars, cacheVars, clientVars, ipVars, bfVars,
      valVars, cpVars, bulkVars, csvVars>>
notClient ==
    <<batchVars, cbVars, rlVars, retryVars, cacheVars, ipVars, bfVars, restVars>>

\* ------------------------------------------------------- BatchProcessor
Min(a, b) == IF a < b THEN a ELSE b

\* items[i:i + batch_size], with i counted from 0 as in the source
BatchSliceShort(its, i, bs) == SubSeq(its, i + 1, Min(i + bs - 1, Len(its)))
BatchSlice(its, i, bs) == SubSeq(its, i + 1, Min(i + bs, Len(its)))

\* self.consecutive_failures >= self.max_consecutive_failures
ReachedMaxStrict(cf, m) == cf > m
ReachedMax(cf, m) == cf >= m

BatchResult(batch, out, ok, err) ==
    [input_items |-> batch, output_items |-> out, success |-> ok, error |-> err]

\* the item lists a caller may pass: <<1, ..., n>>, every item distinct
ItemLists == { [k \in 1..n |-> k] : n \in 0..MaxItems }

BatchInit ==
    /\ batch_size \in 1..MaxBatch
    /\ max_consecutive_failures \in 1..MaxFail
    /\ consecutive_failures = 0
    /\ items = <<>>
    /\ bi = 0
    /\ results = <<>>
    /\ bpc = "idle"
    /\ invoked = 0
    /\ outcomes = <<>>
    /\ runs = 0

\* a caller calls process_batch(its, process_func): results = []
StartCallResets(its) ==
    /\ bpc \in {"idle", "returned", "raised"}
    /\ runs < MaxRuns
    /\ runs' = runs + 1
    /\ items' = its
    /\ bi' = 0
    /\ results' = <<>>
    /\ invoked' = 0
    /\ bpc' = "loop"
    /\ consecutive_failures' = 0
    /\ UNCHANGED <<batch_size, max_consecutive_failures, outcomes>>
    /\ UNCHANGED notBatch
StartCall(its) ==
    /\ bpc \in {"idle", "returned", "raised"}
    /\ runs < MaxRuns
    /\ runs' = runs + 1
    /\ items' = its
    /\ bi' = 0
    /\ results' = <<>>
    /\ invoked' = 0
    /\ bpc' = "loop"
    /\ UNCHANGED <<batch_size, max_consecutive_failures, consecutive_failures, outcomes>>
    /\ UNCHANGED notBatch

\* one iteration of the loop in which process_func(batch) returns
ChunkSucceeds ==
    /\ bpc = "loop"
    /\ bi < Len(items)
    /\ LET batch == BatchSlice(items, bi, batch_size) IN
        /\ results' = Append(results, BatchResult(batch, batch, TRUE, "none"))
        /\ consecutive_failures' = 0
        /\ invoked' = invoked + 1
        /\ outcomes' = Append(outcomes, TRUE)
        /\ bi' = bi + batch_size
    /\ UNCHANGED <<batch_size, max_consecutive_failures, items, bpc, runs>>
    /\ UNCHANGED notBatch

\* one iteration of the loop in which process_func(batch) raises
ChunkFails ==
    /\ bpc = "loop"
    /\ bi < Len(items)
    /\ LET batch == BatchSlice(items, bi, batch_size) IN
        /\ consecutive_failures' = consecutive_failures + 1
        /\ results' = Append(results, BatchResult(batch, <<>>, FALSE, "error"))
        /\ invoked' = invoked + 1
        /\ outcomes' = Append(outcomes, FALSE)
        /\ IF ReachedMax(consecutive_failures + 1, max_consecutive_failures)
             THEN bpc' = "raised" /\ bi' = bi
             ELSE bpc' = bpc /\ bi' = bi + batch_size
    /\ UNCHANGED <<batch_size, max_consecutive_failures, items, runs>>
    /\ UNCHANGED notBatch

\* range(0, len(items), batch_size) is exhausted: return results
LoopExit ==
    /\ bpc = "loop"
    /\ bi >= Len(items)
    /\ bpc' = "returned"
    /\ UNCHANGED <<batch_size, max_consecutive_failures, consecutive_failures,
                   items, bi, results, invoked, outcomes, runs>>
    /\ UNCHANGED notBatch


\* ------------------------------------------------------- CircuitBreaker
\* The statements of wrapper, on_success and on_failure are the steps: a
\* thread switch may fall between any two of them. can_execute is one step.
\* The bookkeeping of on_success and on_failure takes no clock tick.
CBCallers == 1..NCallers

\* datetime.now() - self.last_state_change > timedelta(seconds=self.reset_timeout)
TimeoutElapsedNoLimit(now, since, timeout) == now - since > 0
TimeoutElapsedInclusive(now, since, timeout) == now - since >= timeout
TimeoutElapsed(now, since, timeout) == now - since > timeout

\* self.failures >= self.failure_threshold
OpenConditionStrict(f, threshold) == f > threshold
OpenCondition(f, threshold) == f >= threshold

\* the value on_success assigns to self.failures when it closes the breaker
ClosedFailuresKept == failures
ClosedFailures == 0

\* can_execute(): the value returned and the state it leaves
CanExecute ==
    IF state = "CLOSED" THEN [ok |-> TRUE, state |-> state, since |-> last_state_change]
    ELSE IF state = "OPEN" THEN
        IF TimeoutElapsed(cnow, last_state_change, reset_timeout)
          THEN [ok |-> TRUE, state |-> "HALF_OPEN", since |-> cnow]
          ELSE [ok |-> FALSE, state |-> state, since |-> last_state_change]
    ELSE [ok |-> TRUE, state |-> state, since |-> last_state_change]

InFlight == Cardinality({c \in CBCallers : cpc[c] # "idle"})

CBInit ==
    /\ failure_threshold \in 1..MaxThreshold
    /\ reset_timeout \in 1..MaxTimeout
    /\ failures = 0
    /\ state = "CLOSED"
    /\ last_failure_time = -1
    /\ last_state_change = 0
    /\ cnow = 0
    /\ cpc = [c \in CBCallers |-> "idle"]
    /\ cres = [c \in CBCallers |-> "none"]
    /\ ctrial = [c \in CBCallers |-> FALSE]
    /\ cfail0 = [c \in CBCallers |-> 0]
    /\ hist = <<>>
    /\ openedAt = -1

\* the end of wrapper for caller c, with result r
CBFinish(c, r) ==
    /\ cpc' = [cpc EXCEPT ![c] = "idle"]
    /\ cres' = [cres EXCEPT ![c] = r]
    /\ hist' = Append(hist, r)

\* caller c calls the wrapped function: if not self.can_execute(): raise
CBCall(c) ==
    /\ cpc[c] = "idle"
    /\ Len(hist) + InFlight < MaxCBCalls
    /\ LET r == CanExecute IN
        /\ state' = r.state
        /\ last_state_change' = r.since
        /\ IF r.ok
             THEN /\ cpc' = [cpc EXCEPT ![c] = "running"]
                  /\ ctrial' = [ctrial EXCEPT ![c] = (r.state = "HALF_OPEN")]
                  /\ cfail0' = [cfail0 EXCEPT ![c] = failures]
                  /\ UNCHANGED <<cres, hist>>
             ELSE /\ CBFinish(c, "open_error")
                  /\ ctrial' = [ctrial EXCEPT ![c] = FALSE]
                  /\ UNCHANGED cfail0
    /\ UNCHANGED <<failure_threshold, reset_timeout, failures, last_failure_time,
                   cnow, openedAt>>
    /\ UNCHANGED notCB

\* result = func(*args, **kwargs) returns: on_success() is entered
FuncReturns(c) ==
    /\ cpc[c] = "running"
    /\ cpc' = [cpc EXCEPT ![c] = "succ_check"]
    /\ UNCHANGED <<failure_threshold, reset_timeout, failures, state, last_failure_time,
                   last_state_change, cnow, cres, ctrial, cfail0, hist, openedAt>>
    /\ UNCHANGED notCB

\* func(*args, **kwargs) raises: on_failure() is entered
FuncRaises(c) ==
    /\ cpc[c] = "running"
    /\ cpc' = [cpc EXCEPT ![c] = "fail_inc"]
    /\ UNCHANGED <<failure_threshold, reset_timeout, failures, state, last_failure_time,
                   last_state_change, cnow, cres, ctrial, cfail0, hist, openedAt>>
    /\ UNCHANGED notCB

\* on_success: if self.state == CircuitState.HALF_OPEN (else return result)
SuccCheck(c) ==
    /\ cpc[c] = "succ_check"
    /\ IF state = "HALF_OPEN"
         THEN cpc' = [cpc EXCEPT ![c] = "succ_state"] /\ UNCHANGED <<cres, hist>>
         ELSE CBFinish(c, "returned")
    /\ UNCHANGED <<failure_threshold, reset_timeout, failures, state, last_failure_time,
                   last_state_change, cnow, ctrial, cfail0, openedAt>>
    /\ UNCHANGED notCB

\* on_success: self.state = CircuitState.CLOSED
SuccStateKept(c) ==
    /\ cpc[c] = "succ_state"
    /\ cpc' = [cpc EXCEPT ![c] = "succ_reset"]
    /\ UNCHANGED <<failure_threshold, reset_timeout, failures, state, last_failure_time,
                   last_state_change, cnow, cres, ctrial, cfail0, hist, openedAt>>
    /\ UNCHANGED notCB
SuccState(c) ==
    /\ cpc[c] = "succ_state"
    /\ state' = "CLOSED"
    /\ cpc' = [cpc EXCEPT ![c] = "succ_reset"]
    /\ UNCHANGED <<failure_threshold, reset_timeout, failures, last_failure_time,
                   last_state_change, cnow, cres, ctrial, cfail0, hist, openedAt>>
    /\ UNCHANGED notCB

\* on_success: self.failures = 0
SuccReset(c) ==
    /\ cpc[c] = "succ_reset"
    /\ failures' = ClosedFailures
    /\ cpc' = [cpc EXCEPT ![c] = "succ_time"]
    /\ UNCHANGED <<failure_threshold, reset_timeout, state, last_failure_time,
                   last_state_change, cnow, cres, ctrial, cfail0, hist, openedAt>>
    /\ UNCHANGED notCB

\* on_success: self.last_state_change = datetime.now(); return result
SuccTime(c) ==
    /\ cpc[c] = "succ_time"
    /\ last_state_change' = cnow
    /\ CBFinish(c, "returned")
    /\ UNCHANGED <<failure_threshold, reset_timeout, failures, state, last_failure_time,
                   cnow, ctrial, cfail0, openedAt>>
    /\ UNCHANGED notCB

\* on_failure: self.failures += 1
FailInc(c) ==
    /\ cpc[c] = "fail_inc"
    /\ failures' = failures + 1
    /\ cpc' = [cpc EXCEPT ![c] = "fail_time"]
    /\ UNCHANGED <<failure_threshold, reset_timeout, state, last_failure_time,
                   last_state_change, cnow, cres, ctrial, cfail0, hist, openedAt>>
    /\ UNCHANGED notCB

\* on_failure: self.last_failure_time = datetime.now()
FailTime(c) ==
    /\ cpc[c] = "fail_time"
    /\ last_failure_time' = cnow
    /\ cpc' = [cpc EXCEPT ![c] = "fail_check"]
    /\ UNCHANGED <<failure_threshold, reset_timeout, failures, state,
                   last_state_change, cnow, cres, ctrial, cfail0, hist, openedAt>>
    /\ UNCHANGED notCB

\* on_failure: if self.failures >= self.failure_threshold (else raise e)
FailCheck(c) ==
    /\ cpc[c] = "fail_check"
    /\ IF OpenCondition(failures, failure_threshold)
         THEN cpc' = [cpc EXCEPT ![c] = "fail_open"] /\ UNCHANGED <<cres, hist>>
         ELSE CBFinish(c, "op_error")
    /\ UNCHANGED <<failure_threshold, reset_timeout, failures, state, last_failure_time,
                   last_state_change, cnow, ctrial, cfail0, openedAt>>
    /\ UNCHANGED notCB

\* on_failure: self.state = CircuitState.OPEN
FailOpen(c) ==
    /\ cpc[c] = "fail_open"
    /\ state' = "OPEN"
    /\ openedAt' = IF state = "OPEN" THEN openedAt ELSE cnow
    /\ cpc' = [cpc EXCEPT ![c] = "fail_stamp"]
    /\ UNCHANGED <<failure_threshold, reset_timeout, failures, last_failure_time,
                   last_state_change, cnow, cres, ctrial, cfail0, hist>>
    /\ UNCHANGED notCB

\* on_failure: self.last_state_change = datetime.now(); raise e
FailStamp(c) ==
    /\ cpc[c] = "fail_stamp"
    /\ last_state_change' = cnow
    /\ CBFinish(c, "op_error")
    /\ UNCHANGED <<failure_threshold, reset_timeout, failures, state, last_failure_time,
                   cnow, ctrial, cfail0, openedAt>>
    /\ UNCHANGED notCB

\* the clock advances while no caller is inside on_success or on_failure
CBTick ==
    /\ cnow < MaxCBTime
    /\ \A c \in CBCallers : cpc[c] \in {"idle", "running"}
    /\ cnow' = cnow + 1
    /\ UNCHANGED <<failure_threshold, reset_timeout, failures, state, last_failure_time,
                   last_state_change, cpc, cres, ctrial, cfail0, hist, openedAt>>
    /\ UNCHANGED notCB

\* a point of time t as it stands once the clock, held at MaxCBTime, has
\* advanced by one: the differences now - t are kept up to MaxCBTime, which
\* is more than any reset_timeout
Aged(t) == IF t <= 0 THEN t ELSE t - 1

\* the clock advances without end; the record of the calls that have ended
\* is let go, so that calls keep being made
CBTickLive ==
    /\ \A c \in CBCallers : cpc[c] \in {"idle", "running"}
    /\ IF cnow < MaxCBTime
         THEN /\ cnow' = cnow + 1
              /\ UNCHANGED <<last_failure_time, last_state_change, openedAt>>
         ELSE /\ cnow' = cnow
              /\ last_failure_time' = Aged(last_failure_time)
              /\ last_state_change' = Aged(last_state_change)
              /\ openedAt' = Aged(openedAt)
    /\ hist' = <<>>
    /\ UNCHANGED <<failure_threshold, reset_timeout, failures, state, cpc, cres, ctrial,
                   cfail0>>
    /\ UNCHANGED notCB

CBStep(c) ==
    \/ CBCall(c)
    \/ FuncReturns(c)
    \/ FuncRaises(c)
    \/ SuccCheck(c)
    \/ SuccState(c)
    \/ SuccReset(c)
    \/ SuccTime(c)
    \/ FailInc(c)
    \/ FailTime(c)
    \/ FailCheck(c)
    \/ FailOpen(c)
    \/ FailStamp(c)


\* ---------------------------------------------------------- RateLimiter
\* acquire() runs on an event loop: a task runs without interruption up to its
\* next await (the lock, the sleep). asyncio.Lock wakes its waiters first
\* come first, and asyncio.sleep(d) resumes the task d or more later.
Tasks == 1..NTasks

\* [t for t in self._call_times if t > cutoff], cutoff = now - period
Purge(ts, now, per) == SelectSeq(ts, LAMBDA t : t > now - per)

\* min(self._call_times)
SeqMin(ts) == CHOOSE m \in {ts[k] : k \in 1..Len(ts)} : \A k \in 1..Len(ts) : m <= ts[k]

\* (oldest + timedelta(seconds=self.period) - now).total_seconds()
SleepTimeWholePeriod(oldest, per, now) == per
SleepTime(oldest, per, now) == oldest + per - now

\* async with self._lock, on entry: the lock is taken at once only when no
\* task holds it
LockFreeAlways == TRUE
LockFree == holder = 0

\* async with self._lock, on exit: asyncio.Lock wakes the first waiter, which
\* then owns the lock (0: nobody waits, the lock is left unlocked)
ReleasedToNobody(ws) == 0
Released(ws) == IF ws = <<>> THEN 0 ELSE Head(ws)

RLInit ==
    /\ calls \in 1..MaxRLCalls
    /\ period \in 1..MaxPeriod
    /\ call_times = <<>>
    /\ holder = 0
    /\ waiters = <<>>
    /\ rnow = 0
    /\ rpc = [a \in Tasks |-> "idle"]
    /\ stamp = [a \in Tasks |-> 0]
    /\ wake = [a \in Tasks |-> 0]
    /\ grants = <<>>
    /\ acquires = 0

\* the end of acquire() for task a: self._call_times.append(now), the lock is
\* released to the first waiter, acquire() returns
RLReturn(a, ts, now) ==
    /\ call_times' = Append(ts, now)
    /\ grants' = Append(grants, rnow)
    /\ stamp' = [stamp EXCEPT ![a] = 0]
    /\ wake' = [wake EXCEPT ![a] = 0]
    /\ holder' = Released(waiters)
    /\ rpc' = [b \in Tasks |-> IF b = a THEN "idle"
                                ELSE IF b = Released(waiters) THEN "ready"
                                ELSE rpc[b]]
    /\ waiters' = IF waiters = <<>> THEN waiters ELSE Tail(waiters)

\* the body of acquire() for task a, which holds the lock, up to its await
RLBody(a) ==
    LET now == rnow
        kept == Purge(call_times, now, period)
    IN  IF Len(kept) >= calls /\ SleepTime(SeqMin(kept), period, now) > 0
          THEN /\ call_times' = kept
               /\ holder' = a
               /\ rpc' = [rpc EXCEPT ![a] = "sleeping"]
               /\ stamp' = [stamp EXCEPT ![a] = now]
               /\ wake' = [wake EXCEPT ![a] = rnow + SleepTime(SeqMin(kept), period, now)]
               /\ UNCHANGED <<waiters, grants>>
          ELSE RLReturn(a, kept, now)

\* task a calls acquire(): async with self._lock
RLAcquire(a) ==
    /\ rpc[a] = "idle"
    /\ acquires < MaxAcquires
    /\ rnow <= MaxRLTime
    /\ acquires' = acquires + 1
    /\ IF LockFree
         THEN RLBody(a)
         ELSE /\ waiters' = Append(waiters, a)
              /\ rpc' = [rpc EXCEPT ![a] = "waiting"]
              /\ UNCHANGED <<call_times, holder, stamp, wake, grants>>
    /\ UNCHANGED <<calls, period, rnow>>
    /\ UNCHANGED notRL

\* task a, woken with the lock, runs the body of acquire()
RLEnter(a) ==
    /\ rpc[a] = "ready"
    /\ RLBody(a)
    /\ UNCHANGED <<calls, period, rnow, acquires>>
    /\ UNCHANGED notRL

\* task a's asyncio.sleep(sleep_time) is over
RLWake(a) ==
    /\ rpc[a] = "sleeping"
    /\ rnow >= wake[a]
    /\ RLReturn(a, call_times, stamp[a])
    /\ UNCHANGED <<calls, period, rnow, acquires>>
    /\ UNCHANGED notRL

\* the clock advances
RLTick ==
    /\ \/ rnow < MaxRLTime
       \/ \E a \in Tasks : rpc[a] = "sleeping" /\ rnow < wake[a]
    /\ rnow' = rnow + 1
    /\ UNCHANGED <<calls, period, call_times, holder, waiters, rpc, stamp, wake,
                   grants, acquires>>
    /\ UNCHANGED notRL

\* ---------------------------------------------------------- async_retry
\* the error kinds func can raise; exceptions is a set of them
ErrKinds == {"RateLimitError", "AuthenticationError"}

\* last_exception = None
NoException == [kind |-> "None", attempt |-> -1]

\* raise None: Python raises a TypeError of its own
RaiseOf(exc) == IF exc = NoException THEN [kind |-> "TypeError", attempt |-> -1] ELSE exc

RECURSIVE Pow(_, _)
Pow(b, n) == IF n = 0 THEN 1 ELSE b * Pow(b, n - 1)

\* times are counted in units of 1/TimeUnit second, fine enough for every
\* backoff ** attempt and every jitter to be a whole number of units
JitterDen == 10 * JitterSteps
TimeUnit == JitterDen * Pow(BackoffDen, MaxRetries)

\* range(retries): the values the loop variable attempt takes, in order
AttemptsFromOne(r) == 1..(r - 1)
Attempts(r) == 0..(r - 1)

\* the first value of a range that is not empty
First(S) == CHOOSE m \in S : \A x \in S : m <= x

\* except exceptions as e
EligibleAll(k) == TRUE
Eligible(k) == k \in exceptions

\* if attempt == retries - 1
IsLastAttemptLate(i, r) == i = r
IsLastAttempt(i, r) == i = r - 1

\* jitter = random.uniform(0, 0.1) * delay, the random number being j/JitterDen
Jitter(d, j) == j * d * Pow(BackoffDen, MaxRetries)

\* sleep_time = (delay * (backoff ** attempt)) + jitter
SleepTimeRetry(d, b, i, j) ==
    d * Pow(b, i) * Pow(BackoffDen, MaxRetries - i) * JitterDen + Jitter(d, j)

RetryInit ==
    /\ retries \in 1..MaxRetries
    /\ delay \in 0..MaxDelay
    /\ backoff \in 1..MaxBackoff
    /\ exceptions \in SUBSET ErrKinds
    /\ attempt = 0
    /\ last_exception = NoException
    /\ ypc = "idle"
    /\ yres = NoException
    /\ invocs = 0
    /\ errs = <<>>
    /\ slept = <<>>

\* wrapper is called: last_exception = None, the loop starts
WrapperCall ==
    /\ ypc = "idle"
    /\ last_exception' = NoException
    /\ IF Attempts(retries) # {}
         THEN /\ attempt' = First(Attempts(retries))
              /\ ypc' = "try"
              /\ yres' = yres
         ELSE /\ attempt' = attempt
              /\ ypc' = "raised"
              /\ yres' = RaiseOf(NoException)
    /\ UNCHANGED <<retries, delay, backoff, exceptions, invocs, errs, slept>>
    /\ UNCHANGED notRetry

\* return await func(*args, **kwargs), func returning
AttemptReturns ==
    /\ ypc = "try"
    /\ invocs' = invocs + 1
    /\ ypc' = "returned"
    /\ yres' = [kind |-> "value", attempt |-> attempt]
    /\ UNCHANGED <<retries, delay, backoff, exceptions, attempt, last_exception,
                   errs, slept>>
    /\ UNCHANGED notRetry

\* await func(*args, **kwargs) raises an error of kind k; the except clause
\* up to its await, the random number drawn being j/JitterDen
AttemptRaises(k, j) ==
    /\ ypc = "try"
    /\ invocs' = invocs + 1
    /\ errs' = Append(errs, k)
    /\ IF Eligible(k)
         THEN /\ last_exception' = [kind |-> k, attempt |-> attempt]
              /\ IF IsLastAttempt(attempt, retries)
                   THEN /\ ypc' = "raised"
                        /\ yres' = [kind |-> k, attempt |-> attempt]
                        /\ slept' = slept
                   ELSE /\ ypc' = "sleeping"
                        /\ yres' = yres
                        /\ slept' = Append(slept,
                              [attempt |-> attempt,
                               time |-> SleepTimeRetry(delay, backoff, attempt, j)])
         ELSE /\ ypc' = "raised"
              /\ yres' = [kind |-> k, attempt |-> attempt]
              /\ UNCHANGED <<last_exception, slept>>
    /\ UNCHANGED <<retries, delay, backoff, exceptions, attempt>>
    /\ UNCHANGED notRetry

\* asyncio.sleep(sleep_time) is over: the next round of the loop, or the end
\* of the loop and raise last_exception
SleepDone ==
    /\ ypc = "sleeping"
    /\ attempt' = attempt + 1
    /\ IF attempt + 1 \in Attempts(retries)
         THEN ypc' = "try" /\ yres' = yres
         ELSE ypc' = "raised" /\ yres' = RaiseOf(last_exception)
    /\ UNCHANGED <<retries, delay, backoff, exceptions, last_exception, invocs,
                   errs, slept>>
    /\ UNCHANGED notRetry

\* ---------------------------------------------------------------- Cache
\* what get() returns: None, or the value of an entry
None == [some |-> FALSE]
Some(v) == [some |-> TRUE, value |-> v]

\* the ttl argument of set() left at its default None
NoTTL == 0 - 1
TTLArgs == {NoTTL} \cup 0..MaxTTL

\* an empty dict
EmptyStore == [k \in {} |-> None]

\* CacheEntry.__init__
CacheEntry(v, t, now) == [value |-> v, expiry |-> now + t]

\* CacheEntry.is_expired: datetime.now() > self.expiry
IsExpiredInclusive(e, now) == now >= e.expiry
IsExpired(e, now) == now > e.expiry

\* ttl or self.ttl: None and 0 are both falsy
TTLOr(t, dflt) == IF t = NoTTL \/ t = 0 THEN dflt ELSE t

\* Cache.get: the value returned
GetValue(st, k, now) ==
    IF k \in DOMAIN st /\ ~IsExpired(st[k], now) THEN Some(st[k].value) ELSE None

\* Cache.get: the store it leaves (an expired entry is deleted)
GetStore(st, k, now) ==
    IF k \in DOMAIN st /\ IsExpired(st[k], now)
      THEN [x \in DOMAIN st \ {k} |-> st[x]]
      ELSE st

\* Cache.set: the store it leaves
SetStore(st, k, v, t, dflt, now) ==
    [x \in DOMAIN st \cup {k} |->
        IF x = k THEN CacheEntry(v, TTLOr(t, dflt), now) ELSE st[x]]

\* Cache.clear_expired: the store it leaves
ClearExpiredStore(st, now) ==
    [x \in {y \in DOMAIN st : ~IsExpired(st[y], now)} |-> st[x]]

CacheKeys == {"k1", "k2"}
CacheValues == {"v1", "v2"}

CacheInit ==
    /\ ttl \in 1..MaxTTL
    /\ store = EmptyStore
    /\ know = 0
    /\ kgot = None
    /\ kop = [op |-> "none", key |-> "", ttl |-> NoTTL]
    /\ kops = 0
    /\ recent = EmptyStore

CacheSet(k, v, t) ==
    /\ kops < MaxCacheOps
    /\ store' = SetStore(store, k, v, t, ttl, know)
    /\ recent' = [x \in DOMAIN recent \cup {k} |-> IF x = k THEN store'[k] ELSE recent[x]]
    /\ kop' = [op |-> "set", key |-> k, ttl |-> t]
    /\ kops' = kops + 1
    /\ UNCHANGED <<ttl, know, kgot>>
    /\ UNCHANGED notCache

CacheGet(k) ==
    /\ kops < MaxCacheOps
    /\ kgot' = GetValue(store, k, know)
    /\ store' = GetStore(store, k, know)
    /\ kop' = [op |-> "get", key |-> k, ttl |-> NoTTL]
    /\ kops' = kops + 1
    /\ UNCHANGED <<ttl, know, recent>>
    /\ UNCHANGED notCache

CacheClearExpired ==
    /\ kops < MaxCacheOps
    /\ store' = ClearExpiredStore(store, know)
    /\ kop' = [op |-> "clear_expired", key |-> "", ttl |-> NoTTL]
    /\ kops' = kops + 1
    /\ UNCHANGED <<ttl, know, kgot, recent>>
    /\ UNCHANGED notCache

\* the clock advances
CacheTick ==
    /\ know < MaxCacheTime
    /\ know' = know + 1
    /\ kop' = [op |-> "tick", key |-> "", ttl |-> NoTTL]
    /\ UNCHANGED <<ttl, store, kgot, kops, recent>>
    /\ UNCHANGED notCache

\* --------------------------------------- DevRevClient.get_user_groups
\* user ids, ordered as sorted() orders them
UserIds == {1, 2}
IdLists ==
    {<<a>> : a \in UserIds} \cup
    {<<p[1], p[2]>> : p \in {q \in UserIds \X UserIds : q[1] # q[2]}}

\* the group_refs a user of a users.list response can carry
RefChoices == {<<>>, <<"g1">>, <<"g2", "g1">>}

\* the users lists the API can answer a request for ids with: any of the
\* requested users, each with any group_refs
Responses(ids) ==
    {SelectSeq([i \in 1..Len(ids) |->
                  [id |-> ids[i], group_refs |-> f[i].refs, present |-> f[i].present]],
               LAMBDA u : u.present) :
        f \in [1..Len(ids) -> [present : BOOLEAN, refs : RefChoices]]}

\* f"user_groups_{','.join(sorted(user_ids))}": one key per sorted id list
CacheKey(ids) == SortSeq(ids, LAMBDA a, b : a < b)

\* if cached: None and the empty list are both falsy
Truthy(c) == c.some /\ c.value # <<>>

\* the list comprehension building groups from data.get('users', [])
UserGroupOf(user) ==
    [user_id |-> user.id,
     group_id |-> IF user.group_refs # <<>> THEN Head(user.group_refs) ELSE "None"]
Groups(users) == [i \in 1..Len(users) |-> UserGroupOf(users[i])]

ClientInit ==
    /\ cstore = EmptyStore
    /\ gnow = 0
    /\ requests = 0
    /\ gret = [kind |-> "none"]
    /\ gsrc = "none"
    /\ gids = <<>>
    /\ gresp = <<>>
    /\ fetched = EmptyStore
    /\ gcalls = 0

\* get_user_groups(ids) finds a truthy cached value and returns it
GetUserGroupsCached(ids) ==
    /\ gcalls < MaxClientCalls
    /\ Truthy(GetValue(cstore, CacheKey(ids), gnow))
    /\ cstore' = GetStore(cstore, CacheKey(ids), gnow)
    /\ gret' = [kind |-> "returned", value |-> GetValue(cstore, CacheKey(ids), gnow).value]
    /\ gsrc' = "cache"
    /\ gids' = ids
    /\ gcalls' = gcalls + 1
    /\ UNCHANGED <<gnow, requests, gresp, fetched>>
    /\ UNCHANGED notClient

\* get_user_groups(ids) finds nothing truthy in the cache, posts users.list,
\* is answered with users, caches and returns the groups
GetUserGroupsFetched(ids, users) ==
    /\ gcalls < MaxClientCalls
    /\ ~Truthy(GetValue(cstore, CacheKey(ids), gnow))
    /\ requests' = requests + 1
    /\ cstore' = SetStore(GetStore(cstore, CacheKey(ids), gnow), CacheKey(ids),
                          Groups(users), NoTTL, ClientCacheTTL, gnow)
    /\ gret' = [kind |-> "returned", value |-> Groups(users)]
    /\ gsrc' = "network"
    /\ gids' = ids
    /\ gresp' = users
    /\ fetched' = [x \in DOMAIN fetched \cup {{ids[i] : i \in 1..Len(ids)}} |->
                     IF x = {ids[i] : i \in 1..Len(ids)} THEN gnow ELSE fetched[x]]
    /\ gcalls' = gcalls + 1
    /\ UNCHANGED gnow
    /\ UNCHANGED notClient

\* get_user_groups(ids) finds nothing truthy in the cache, posts users.list,
\* and the request or the decoding of its answer raises
GetUserGroupsFails(ids) ==
    /\ gcalls < MaxClientCalls
    /\ ~Truthy(GetValue(cstore, CacheKey(ids), gnow))
    /\ requests' = requests + 1
    /\ cstore' = GetStore(cstore, CacheKey(ids), gnow)
    /\ gret' = [kind |-> "raised"]
    /\ gsrc' = "network"
    /\ gids' = ids
    /\ gcalls' = gcalls + 1
    /\ UNCHANGED <<gnow, gresp, fetched>>
    /\ UNCHANGED notClient

\* the clock advances
ClientTick ==
    /\ gnow < MaxClientTime
    /\ gnow' = gnow + ClockStep
    /\ UNCHANGED <<cstore, requests, gret, gsrc, gids, gresp, fetched, gcalls>>
    /\ UNCHANGED notClient

\* ------------------------------ DevRevClient.update_issue_creator_group
\* what a call, or one attempt of it, ends with
Returned(v) == [kind |-> "returned", value |-> v]
Raised(e) == [kind |-> "raised", exc |-> e]

\* response.status of the answer to works.update; NetError: the request or the
\* session raised instead
StatusCodes == {200, 401, 403, 404, 429}
NetError == 0 - 1
Answers == StatusCodes \cup {NetError}

\* if dry_run: return True, before any request is made
SkipsNetworkNever(dry) == FALSE
SkipsNetwork(dry) == dry

\* the body of update_issue_creator_group: True on 200; False on 404, on 403,
\* on any other status and on any exception
UpdateBody(dry, answer) ==
    IF SkipsNetwork(dry) \/ answer = 200 THEN Returned(TRUE) ELSE Returned(FALSE)

\* @retry(retry=retry_if_exception_type(RateLimitError))
RetryIf(result) == result.kind = "raised" /\ result.exc = "RateLimitError"

\* ------------------------------------------------------- IssueProcessor
IssueA == [issue_id |-> "1", creator_user_id |-> "user1",
           assigned_group |-> "group1", creator_group |-> "None"]
IssueB == [issue_id |-> "2", creator_user_id |-> "user2",
           assigned_group |-> "group2", creator_group |-> "group2"]
IssueC == [issue_id |-> "3", creator_user_id |-> "user2",
           assigned_group |-> "invalid", creator_group |-> "None"]
IssueD == [issue_id |-> "", creator_user_id |-> "user1",
           assigned_group |-> "group1", creator_group |-> "None"]
IssueKinds == {IssueA, IssueB, IssueC, IssueD}

IssueLists == UNION {[1..n -> IssueKinds] : n \in 0..MaxIssues}

\* the ids of the groups get_groups returns
FetchedGroups == {"group1", "group2"}

\* DataValidator.validate_issue(issue).is_valid
IsValid(issue) == issue.issue_id # "" /\ issue.creator_user_id # ""

\* group_map.get(issue.creator_group): the id of the group found, or "None"
GroupOf(issue, gm) ==
    IF issue.creator_group \in gm THEN issue.creator_group ELSE "None"

\* ProcessingStats()
NewStats == [total_processed |-> 0, successful_updates |-> 0,
             failed_updates |-> 0, skipped_updates |-> 0]

\* self.stats.total_processed += 1
Processed(st) == [st EXCEPT !.total_processed = @ + 1]

\* self.stats.failed_updates += 1
Failed(st) == [st EXCEPT !.failed_updates = @ + 1]

\* self.stats.successful_updates += 1
Succeeded(st) == [st EXCEPT !.successful_updates = @ + 1]

\* logger or ContextLogger(__name__): ContextLogger has info and error only,
\* so that its warning raises AttributeError; an injected logger has them all
Loggers == {"ContextLogger", "injected"}
HasWarning(l) == l # "ContextLogger"

\* metrics or MetricsCollector(): MetricsCollector has neither record_success
\* nor record_failure, so that they raise AttributeError; injected metrics
\* have both
MetricsKinds == {"MetricsCollector", "injected"}
HasRecord(m) == m # "MetricsCollector"

\* where a task is and what the counters are when one step of it is over
Outcome(st, pc) == [stats |-> st, pc |-> pc]

\* except Exception: logger.error, failed_updates += 1, metrics.record_failure()
Except(st, m) ==
    IF HasRecord(m) THEN Outcome(Failed(st), "done") ELSE Outcome(Failed(st), "raised")

\* if not validation.is_valid: logger.warning, failed_updates += 1, return;
\* this is before the try
InvalidIssue(st, l) ==
    IF HasWarning(l) THEN Outcome(Failed(st), "done") ELSE Outcome(st, "raised")

\* if not group: logger.warning, failed_updates += 1, return; inside the try
GroupNotFound(st, l, m) ==
    IF HasWarning(l) THEN Outcome(Failed(st), "done") ELSE Except(st, m)

\* _process_single_issue after its await: if success / else / except Exception
Accounted(st, final, m) ==
    IF final.kind = "raised" THEN Except(st, m)
    ELSE IF final.value
    THEN IF HasRecord(m) THEN Outcome(Succeeded(st), "done")
                         ELSE Except(Succeeded(st), m)
    ELSE IF HasRecord(m) THEN Outcome(Failed(st), "done")
                         ELSE Except(Failed(st), m)

\* issues[i:i + self.batch_size], as the set of its positions in issues
ChunkAt(i) == {k \in 1..Len(ip_issues) : k > i /\ k <= i + ip_batch_size}

\* await asyncio.gather(*tasks) raises what the first task to raise raised;
\* every task of the chunk has taken its first step by then
GatherRaised(ch) ==
    /\ \A k \in ch : task_pc[k] # "pending"
    /\ \E k \in ch : task_pc[k] = "raised"

\* await asyncio.gather(*tasks) returns once every task has finished
GatherDoneEarly(ch) == \A k \in ch : task_pc[k] # "pending"
GatherDone(ch) == \A k \in ch : task_pc[k] = "done"

NoUpdate == [answer |-> 0, attempts |-> 0, result |-> [kind |-> "none"]]

\* IssueProcessor.__init__, and what process_issues starts from
IPFields ==
    /\ group_map = FetchedGroups
    /\ stats = NewStats
    /\ ip_i = 0
    /\ ip_pc = "idle"
    /\ task_pc = [k \in 1..Len(ip_issues) |-> "pending"]
    /\ task_attempt = [k \in 1..Len(ip_issues) |-> 0]
    /\ semaphore = SemaphoreValue
    /\ sent = 0
    /\ last_update = NoUpdate
    /\ saw401 = FALSE
    /\ bad_updates = 0
    /\ ip_result = NewStats

IPInit ==
    /\ ip_issues \in IssueLists
    /\ dry_run \in BOOLEAN
    /\ ip_batch_size \in 1..MaxIPBatch
    /\ ip_logger \in Loggers
    /\ ip_metrics \in MetricsKinds
    /\ IPFields

\* process_issues is called: the groups are fetched, the loop starts with the
\* first chunk (whose _process_batch takes its semaphore) or, without issues,
\* is over at once
ProcessIssues ==
    /\ ip_pc = "idle"
    /\ ip_i' = 0
    /\ IF Len(ip_issues) > 0
         THEN /\ ip_pc' = "gather"
              /\ semaphore' = SemaphoreValue - 1
              /\ ip_result' = ip_result
         ELSE /\ ip_pc' = "returned"
              /\ semaphore' = semaphore
              /\ ip_result' = stats
    /\ UNCHANGED <<ip_issues, dry_run, ip_batch_size, ip_logger, ip_metrics, group_map,
                   stats, task_pc,
                   task_attempt, sent, last_update, saw401, bad_updates>>
    /\ UNCHANGED notIP

\* gather runs the tasks of the chunk in order; the next one runs
\* _process_single_issue up to its first suspension (the request of its update
\* call) or, when nothing suspends it, to its end
TaskStart ==
    /\ ip_pc = "gather"
    /\ \E k \in ChunkAt(ip_i) :
        /\ task_pc[k] = "pending"
        /\ \A j \in ChunkAt(ip_i) : j < k => task_pc[j] # "pending"
        /\ IF ~IsValid(ip_issues[k])
             THEN LET o == InvalidIssue(Processed(stats), ip_logger)
                  IN  /\ stats' = o.stats
                      /\ task_pc' = [task_pc EXCEPT ![k] = o.pc]
                      /\ UNCHANGED <<task_attempt, sent, last_update, bad_updates>>
             ELSE IF GroupOf(ip_issues[k], group_map) = "None"
             THEN LET o == GroupNotFound(Processed(stats), ip_logger, ip_metrics)
                  IN  /\ stats' = o.stats
                      /\ task_pc' = [task_pc EXCEPT ![k] = o.pc]
                      /\ UNCHANGED <<task_attempt, sent, last_update, bad_updates>>
             ELSE IF SkipsNetwork(dry_run)
             THEN LET o == Accounted(Processed(stats), UpdateBody(dry_run, 0), ip_metrics)
                  IN  /\ stats' = o.stats
                      /\ task_pc' = [task_pc EXCEPT ![k] = o.pc]
                      /\ task_attempt' = [task_attempt EXCEPT ![k] = 1]
                      /\ last_update' = [answer |-> 0, attempts |-> 1,
                                          result |-> UpdateBody(dry_run, 0)]
                      /\ UNCHANGED <<sent, bad_updates>>
             ELSE /\ stats' = Processed(stats)
                  /\ task_pc' = [task_pc EXCEPT ![k] = "inflight"]
                  /\ task_attempt' = [task_attempt EXCEPT ![k] = 1]
                  /\ sent' = sent + 1
                  /\ UNCHANGED <<last_update, bad_updates>>
    /\ UNCHANGED <<ip_issues, dry_run, ip_batch_size, ip_logger, ip_metrics, group_map,
                   ip_i, ip_pc,
                   semaphore, saw401, ip_result>>
    /\ UNCHANGED notIP

\* the request of task k is answered: the attempt ends; the retry wrapper
\* re-issues it after a RateLimitError while attempts are left, otherwise the
\* call ends and the task counts its outcome
UpdateResponds(k, answer) ==
    /\ k \in DOMAIN task_pc
    /\ task_pc[k] = "inflight"
    /\ saw401' = (saw401 \/ answer = 401)
    /\ LET attempt_result == UpdateBody(dry_run, answer)
       IN  IF RetryIf(attempt_result) /\ task_attempt[k] < StopAfterAttempt
             THEN /\ task_attempt' = [task_attempt EXCEPT ![k] = @ + 1]
                  /\ sent' = sent + 1
                  /\ UNCHANGED <<stats, task_pc, last_update, bad_updates>>
             ELSE LET final == IF RetryIf(attempt_result)
                                 THEN Raised("RetryError") ELSE attempt_result
                      o == Accounted(stats, final, ip_metrics)
                  IN  /\ stats' = o.stats
                      /\ task_pc' = [task_pc EXCEPT ![k] = o.pc]
                      /\ last_update' = [answer |-> answer,
                                          attempts |-> task_attempt[k],
                                          result |-> final]
                      /\ bad_updates' = IF final = Returned(TRUE)
                                          THEN bad_updates ELSE bad_updates + 1
                      /\ UNCHANGED <<task_attempt, sent>>
    /\ UNCHANGED <<ip_issues, dry_run, ip_batch_size, ip_logger, ip_metrics, group_map,
                   ip_i, ip_pc,
                   semaphore, ip_result>>
    /\ UNCHANGED notIP

\* gather returns, _process_batch leaves its semaphore and returns; the loop
\* of process_issues goes on with the next chunk or ends with _build_result()
BatchDone ==
    /\ ip_pc = "gather"
    /\ GatherDone(ChunkAt(ip_i))
    /\ ip_i' = ip_i + ip_batch_size
    /\ IF ip_i + ip_batch_size < Len(ip_issues)
         THEN /\ ip_pc' = "gather"
              /\ semaphore' = SemaphoreValue - 1
              /\ ip_result' = ip_result
         ELSE /\ ip_pc' = "returned"
              /\ semaphore' = SemaphoreValue
              /\ ip_result' = stats
    /\ UNCHANGED <<ip_issues, dry_run, ip_batch_size, ip_logger, ip_metrics, group_map,
                   stats, task_pc,
                   task_attempt, sent, last_update, saw401, bad_updates>>
    /\ UNCHANGED notIP

\* gather raises: _process_batch leaves its semaphore and raises, and so does
\* process_issues; the tasks still waiting for their answer are not cancelled
GatherRaises ==
    /\ ip_pc = "gather"
    /\ GatherRaised(ChunkAt(ip_i))
    /\ ip_pc' = "crashed"
    /\ semaphore' = SemaphoreValue
    /\ UNCHANGED <<ip_issues, dry_run, ip_batch_size, ip_logger, ip_metrics, group_map,
                   stats, ip_i, task_pc, task_attempt, sent, last_update, saw401,
                   bad_updates, ip_result>>
    /\ UNCHANGED notIP

\* ------------------------------------------- main(), BackfillProcessor
\* Config has no max_batch_failures, which BackfillProcessor.__init__ reads; a
\* config object that has it is the other case
Configs == {"Config", "extended"}
HasMaxBatchFailures(c) == c # "Config"

\* the methods of DevRevClient are coroutine functions, which main.py calls
\* without await: each call returns a coroutine object and sends nothing; a
\* client with synchronous methods is the other case
Clients == {"DevRevClient", "synchronous"}
ReturnsCoroutine(c) == c = "DevRevClient"

\* what a synchronous update_issue_creator_group call ends with
UpdateOutcomes == {"True", "False", "raises"}

UserIdsOfIssues == {"user1", "user2"}

\* issues[i:i + batch_size] of the issue at position k: its first and its last
\* position
BFBatchFirst(k) == ((k - 1) \div bf_batch_size) * bf_batch_size + 1
BFBatchLast(k) ==
    IF BFBatchFirst(k) + bf_batch_size - 1 < Len(bf_issues)
      THEN BFBatchFirst(k) + bf_batch_size - 1 ELSE Len(bf_issues)
BFBatchLen(k) == BFBatchLast(k) - BFBatchFirst(k) + 1

\* user_group_map.get(issue.creator_user_id) is truthy
HasGroup(issue) == issue.creator_user_id \in user_group_map

NewMetrics == [successful_updates |-> 0, failed_updates |-> 0]
NoResult == [total_processed |-> 0 - 1]
NoExit == 0 - 1

\* return 0 if result.failed_updates == 0 else 1
ExitStatus(result) == IF result.failed_updates = 0 THEN 0 ELSE 1

\* _fetch_updated_issues(original_issues)
FetchUpdatedIssuesButLast(original_issues) ==
    SubSeq(original_issues, 1, Len(original_issues) - 1)
FetchUpdatedIssues(original_issues) == original_issues

\* verify_updates(original_issues, updated_issues): one mismatch for unequal
\* lengths, one for every pair of zip() whose issue ids differ
VerifyUpdates(original_issues, updated_issues) ==
    LET pairs == 1..Min(Len(original_issues), Len(updated_issues))
        differing == {p \in pairs : original_issues[p].issue_id # updated_issues[p].issue_id}
        count_mismatch == IF Len(original_issues) # Len(updated_issues) THEN 1 ELSE 0
    IN  [passed |-> count_mismatch + Cardinality(differing) = 0,
         mismatches |-> count_mismatch + Cardinality(differing),
         details |-> [total_checked |-> Len(original_issues),
                      matched |-> Cardinality(pairs) - Cardinality(differing),
                      mismatched |-> Cardinality(differing)]]

BFFields ==
    /\ bf_pc = "main"
    /\ bf_k = 1
    /\ bf_consecutive = 0
    /\ bf_metrics = NewMetrics
    /\ batches_ok = 0
    /\ batches_failed = 0
    /\ update_calls = 0
    /\ failed_calls = 0
    /\ bf_result = NoResult
    /\ exit_status = NoExit
    /\ integrity_result = None

BFInit ==
    /\ bf_issues \in IssueLists
    /\ bf_dry_run \in BOOLEAN
    /\ bf_batch_size \in 1..MaxIPBatch
    /\ bf_max_failures \in 1..MaxFail
    /\ bf_config \in Configs
    /\ bf_client \in Clients
    /\ bf_ready \in BOOLEAN
    /\ user_group_map \in SUBSET UserIdsOfIssues
    /\ BFFields

\* main() up to its call of process_issues: BackfillProcessor(config, ...)
\* raises where config has no max_batch_failures, and main returns 1 from its
\* except; it returns 1 if initialize() or test_connection() fails, 0 if there
\* are no issues
Main ==
    /\ bf_pc = "main"
    /\ IF ~HasMaxBatchFailures(bf_config) \/ ~bf_ready
         THEN bf_pc' = "exited" /\ exit_status' = 1
         ELSE IF bf_issues = <<>>
         THEN bf_pc' = "exited" /\ exit_status' = 0
         ELSE bf_pc' = "groups" /\ exit_status' = exit_status
    /\ UNCHANGED <<bf_issues, bf_dry_run, bf_batch_size, bf_max_failures, bf_config,
                   bf_client, bf_ready, user_group_map, bf_k, bf_consecutive,
                   bf_metrics, batches_ok, batches_failed, update_calls,
                   failed_calls, bf_result, integrity_result>>
    /\ UNCHANGED notBF

\* process_issues up to its batches: the user groups are asked for and the map
\* is built from them; iterating a coroutine object raises TypeError, and the
\* call of a synchronous client may raise: main returns 1 from its except
GetUserGroupMap(raises) ==
    /\ bf_pc = "groups"
    /\ IF ReturnsCoroutine(bf_client) \/ raises
         THEN bf_pc' = "exited" /\ exit_status' = 1
         ELSE bf_pc' = "batches" /\ exit_status' = exit_status
    /\ UNCHANGED <<bf_issues, bf_dry_run, bf_batch_size, bf_max_failures, bf_config,
                   bf_client, bf_ready, user_group_map, bf_k, bf_consecutive,
                   bf_metrics, batches_ok, batches_failed, update_calls,
                   failed_calls, bf_result, integrity_result>>
    /\ UNCHANGED notBF

\* _process_batch takes the next issue of the batch that process_batch is at.
\* An invalid issue and an issue without group make it call logger.warning,
\* which the ContextLogger of main() does not have: _process_batch raises,
\* process_batch notes the batch as failed and raises itself after
\* max_consecutive_failures such batches in a row. Otherwise the issue is
\* recorded (dry run) or its update is called, a failure of which is logged;
\* after its last issue the batch is noted as successful.
ProcessIssue(outcome) ==
    /\ bf_pc = "batches"
    /\ bf_k <= Len(bf_issues)
    /\ IF ~IsValid(bf_issues[bf_k]) \/ ~HasGroup(bf_issues[bf_k])
         THEN /\ batches_failed' = batches_failed + BFBatchLen(bf_k)
              /\ bf_consecutive' = bf_consecutive + 1
              /\ IF bf_consecutive + 1 >= bf_max_failures
                   THEN bf_pc' = "exited" /\ exit_status' = 1 /\ bf_k' = bf_k
                   ELSE /\ bf_pc' = bf_pc /\ exit_status' = exit_status
                        /\ bf_k' = BFBatchLast(bf_k) + 1
              /\ UNCHANGED <<batches_ok, update_calls, failed_calls>>
         ELSE /\ IF bf_dry_run \/ ReturnsCoroutine(bf_client)
                   THEN UNCHANGED <<update_calls, failed_calls>>
                   ELSE /\ update_calls' = update_calls + 1
                        /\ failed_calls' = IF outcome = "True" THEN failed_calls
                                                               ELSE failed_calls + 1
              /\ IF bf_k = BFBatchLast(bf_k)
                   THEN batches_ok' = batches_ok + BFBatchLen(bf_k) /\ bf_consecutive' = 0
                   ELSE UNCHANGED <<batches_ok, bf_consecutive>>
              /\ bf_k' = bf_k + 1
              /\ UNCHANGED <<batches_failed, bf_pc, exit_status>>
    /\ UNCHANGED <<bf_issues, bf_dry_run, bf_batch_size, bf_max_failures, bf_config,
                   bf_client, bf_ready, user_group_map, bf_metrics, bf_result,
                   integrity_result>>
    /\ UNCHANGED notBF

\* process_batch has returned its results: every item of a successful batch is
\* recorded as processed with success, every item of a failed one without; the
\* integrity check compares the issues with themselves; process_issues returns
\* its ProcessingResult and main() its exit status
ProcessIssuesReturns ==
    /\ bf_pc = "batches"
    /\ bf_k > Len(bf_issues)
    /\ bf_metrics' = [successful_updates |-> batches_ok, failed_updates |-> batches_failed]
    /\ bf_result' = [total_processed |-> Len(bf_issues),
                     successful_updates |-> batches_ok,
                     failed_updates |-> batches_failed,
                     skipped_updates |-> 0]
    /\ integrity_result' =
           IF ~bf_dry_run THEN Some(VerifyUpdates(bf_issues, FetchUpdatedIssues(bf_issues)))
           ELSE None
    /\ exit_status' = ExitStatus(bf_result')
    /\ bf_pc' = "exited"
    /\ UNCHANGED <<bf_issues, bf_dry_run, bf_batch_size, bf_max_failures, bf_config,
                   bf_client, bf_ready, user_group_map, bf_k, bf_consecutive,
                   batches_ok, batches_failed, update_calls, failed_calls>>
    /\ UNCHANGED notBF

\* ------------------------------------------ DataValidator.validate_issue
\* the values a field of an Issue may hold: None, a str, an int
PyNone == [t |-> "none", s |-> "", n |-> 0]
PyStr(s) == [t |-> "str", s |-> s, n |-> 0]
PyInt(n) == [t |-> "int", s |-> "", n |-> n]

\* bool(v)
PyTruthy(v) ==
    IF v.t = "none" THEN FALSE
    ELSE IF v.t = "str" THEN v.s # ""
    ELSE v.n # 0

\* isinstance(v, str)
IsStr(v) == v.t = "str"

IssueIdValues == {PyNone, PyStr(""), PyStr("TEST-1"), PyInt(0), PyInt(5)}
CreatorIdValues == {PyNone, PyStr(""), PyStr("USER-1"), PyInt(7)}
AssignedGroupValues == {PyNone, PyStr(""), PyStr("GROUP-1")}

\* if not issue.issue_id / elif not isinstance(issue.issue_id, str)
IssueIdErrors(v) ==
    IF ~PyTruthy(v) THEN <<"Issue ID is required">>
    ELSE IF ~IsStr(v) THEN <<"Issue ID must be a string">>
    ELSE <<>>

\* if not issue.creator_user_id
CreatorErrorsNone(v) == <<>>
CreatorErrors(v) ==
    IF ~PyTruthy(v) THEN <<"Creator user ID is required">> ELSE <<>>

\* if not issue.assigned_group
AssignedWarnings(v) ==
    IF ~PyTruthy(v) THEN <<"Assigned group is missing">> ELSE <<>>

\* validate_issue(issue)
ValidateIssue(issue) ==
    LET errors == IssueIdErrors(issue.issue_id) \o CreatorErrors(issue.creator_user_id)
        warnings == AssignedWarnings(issue.assigned_group)
    IN  [is_valid |-> Len(errors) = 0, errors |-> errors, warnings |-> warnings]

NoValidation == [is_valid |-> FALSE, errors |-> <<>>, warnings |-> <<>>]

ValFields == v_pc = "called" /\ v_result = NoValidation

ValInit ==
    /\ v_issue \in [issue_id : IssueIdValues, creator_user_id : CreatorIdValues,
                    assigned_group : AssignedGroupValues]
    /\ ValFields

\* validate_issue returns
Validate ==
    /\ v_pc = "called"
    /\ v_result' = ValidateIssue(v_issue)
    /\ v_pc' = "returned"
    /\ UNCHANGED v_issue
    /\ UNCHANGED notVal

\* ----------------------------------------------------- CheckpointHandler
\* the text of a file as a sequence of tokens
TokOpen == [k |-> "{", n |-> 0]
TokClose == [k |-> "}", n |-> 0]
TokInt(n) == [k |-> "int", n |-> n]

\* an ItemResult: the item and whether process_func succeeded on it
ItemResult(item, success) == [item |-> item, success |-> success]

\* r.to_dict()
ToDict(r) == r.item

\* [r.to_dict() for r in results if r.success]
AllResults(rs) == [i \in 1..Len(rs) |-> ToDict(rs[i])]
SucceededResults(rs) ==
    LET ok == SelectSeq(rs, LAMBDA r : r.success)
    IN  [i \in 1..Len(ok) |-> ToDict(ok[i])]

\* the checkpoint dict save_checkpoint builds; timestamp is the time of the call
Checkpoint(timestamp, batch_num, items_processed, rs) ==
    [timestamp |-> timestamp, batch_num |-> batch_num,
     items_processed |-> items_processed, results |-> SucceededResults(rs)]

\* json.dumps(checkpoint)
Dumps(c) ==
    <<TokOpen, TokInt(c.timestamp), TokInt(c.batch_num), TokInt(c.items_processed),
      TokInt(Len(c.results))>>
    \o [i \in 1..Len(c.results) |-> TokInt(c.results[i])]
    \o <<TokClose>>

\* what is not a complete JSON text makes json.load raise
WellFormed(text) ==
    /\ Len(text) >= 6
    /\ text[1] = TokOpen
    /\ text[Len(text)] = TokClose
    /\ \A i \in 2..(Len(text) - 1) : text[i].k = "int"
    /\ Len(text) = 6 + text[5].n

\* json.load(f), where it returns
Loads(text) ==
    [timestamp |-> text[2].n, batch_num |-> text[3].n, items_processed |-> text[4].n,
     results |-> [i \in 1..text[5].n |-> text[5 + i].n]]

NoFile == [exists |-> FALSE, text |-> <<>>]
File(text) == [exists |-> TRUE, text |-> text]

\* _load_checkpoint()
LoadCheckpoint(file) ==
    IF ~file.exists THEN None
    ELSE IF WellFormed(file.text) THEN Some(Loads(file.text))
    ELSE None

\* get_resume_position()
ResumePosition(checkpoint) ==
    IF ~checkpoint.some THEN 0 ELSE checkpoint.value.items_processed

\* aiofiles.open(self.checkpoint_file, 'w') creates the file or empties it
Opened(file) == File(<<>>)

\* the texts a file may hold while text is being written to it from its start
Prefixes(text) == {SubSeq(text, 1, n) : n \in 0..Len(text)}

SaveArgs ==
    [batch_num : 1..MaxSaves, items_processed : 0..MaxPosition,
     results : {<<>>, <<ItemResult(1, TRUE)>>,
                <<ItemResult(1, TRUE), ItemResult(2, FALSE)>>,
                <<ItemResult(2, FALSE), ItemResult(3, TRUE)>>}]
NoArgs == [batch_num |-> 0, items_processed |-> 0, results |-> <<>>]

CPFields ==
    /\ last_checkpoint = LoadCheckpoint(cp_file)
    /\ cp_pc = "idle"
    /\ cp_args = NoArgs
    /\ cp_saves = 0
    /\ cp_last = None
    /\ cp_cut = FALSE

\* CheckpointHandler(checkpoint_file), the file missing or holding no JSON
CPInit ==
    /\ cp_file \in {NoFile, File(<<>>), File(<<TokInt(0)>>)}
    /\ CPFields

\* save_checkpoint is called and opens the file for writing
SaveCheckpoint(args) ==
    /\ cp_pc = "idle"
    /\ cp_saves < MaxSaves
    /\ cp_args' = args
    /\ cp_saves' = cp_saves + 1
    /\ cp_file' = Opened(cp_file)
    /\ cp_pc' = "opened"
    /\ UNCHANGED <<last_checkpoint, cp_last, cp_cut>>
    /\ UNCHANGED notCP

\* f.write(json.dumps(checkpoint)): some of the text has reached the file
SaveWrites ==
    /\ cp_pc \in {"opened", "writing"}
    /\ \E text \in Prefixes(Dumps(Checkpoint(cp_saves, cp_args.batch_num,
                                               cp_args.items_processed, cp_args.results))) :
          /\ Len(text) > Len(cp_file.text)
          /\ cp_file' = File(text)
    /\ cp_pc' = "writing"
    /\ UNCHANGED <<last_checkpoint, cp_args, cp_saves, cp_last, cp_cut>>
    /\ UNCHANGED notCP

\* the file is closed with all of the text in it; self.last_checkpoint is set
\* and save_checkpoint returns
SaveReturns ==
    /\ cp_pc \in {"opened", "writing"}
    /\ LET c == Checkpoint(cp_saves, cp_args.batch_num, cp_args.items_processed,
                           cp_args.results)
       IN  /\ cp_file' = File(Dumps(c))
           /\ last_checkpoint' = Some(c)
    /\ cp_pc' = "idle"
    /\ cp_last' = Some(cp_args)
    /\ cp_cut' = FALSE
    /\ UNCHANGED <<cp_args, cp_saves>>
    /\ UNCHANGED notCP

\* the process ends, inside save_checkpoint or not, and a new process
\* constructs a CheckpointHandler on the same file
Restart ==
    /\ last_checkpoint' = LoadCheckpoint(cp_file)
    /\ cp_pc' = "idle"
    /\ cp_cut' = (cp_cut \/ cp_pc # "idle")
    /\ UNCHANGED <<cp_file, cp_args, cp_saves, cp_last>>
    /\ UNCHANGED notCP

\* ----------------------------------------- BulkProcessor.process_items
\* process_items runs on an event loop; the process may end between two
\* batches, and the rerun is handed a CheckpointHandler newly constructed on
\* the same file.

\* items[i:i + self.batch_size], the items being 1..n
BatchOf(i, size, n) == [j \in 1..(Min(i + size, n) - i) |-> i + j]

\* the index at which the loop over the items begins: range(0, total_items, ...)
FirstIndex(checkpoint) == 0

BulkFields ==
    /\ bp_pc = "loop"
    /\ bp_i = FirstIndex(last_checkpoint)
    /\ bp_batch = 0
    /\ bp_run = 1
    /\ bp_resume = 0
    /\ bp_count = [k \in 1..bp_items |-> 0]

\* BulkProcessor(batch_size) and the first process_items(items, f, handler)
BulkInit ==
    /\ bp_items \in 1..MaxBulkItems
    /\ bp_batch_size \in 1..MaxBulkBatch
    /\ BulkFields

\* one pass of the loop: the batch is processed, process_func succeeding on
\* the items of ok, and the checkpoint is saved
ProcessBatch(ok) ==
    /\ bp_pc = "loop"
    /\ bp_i < bp_items
    /\ LET batch == BatchOf(bp_i, bp_batch_size, bp_items)
           item_results == [j \in 1..Len(batch) |-> ItemResult(batch[j], batch[j] \in ok)]
           args == [batch_num |-> bp_batch + 1, items_processed |-> bp_i + Len(batch),
                    results |-> item_results]
           c == Checkpoint(cp_saves + 1, args.batch_num, args.items_processed, item_results)
       IN  /\ bp_count' = [k \in 1..bp_items |->
                             IF \E j \in 1..Len(batch) : batch[j] = k
                               THEN bp_count[k] + 1 ELSE bp_count[k]]
           /\ cp_args' = args
           /\ cp_last' = Some(args)
           /\ cp_file' = File(Dumps(c))
           /\ last_checkpoint' = Some(c)
    /\ cp_saves' = cp_saves + 1
    /\ bp_batch' = bp_batch + 1
    /\ bp_i' = bp_i + bp_batch_size
    /\ UNCHANGED <<cp_pc, cp_cut, bp_items, bp_batch_size, bp_pc, bp_run, bp_resume>>
    /\ UNCHANGED notBulk

\* the range is exhausted: the generator ends
ProcessItemsReturns ==
    /\ bp_pc = "loop"
    /\ bp_i >= bp_items
    /\ bp_pc' = "returned"
    /\ UNCHANGED <<bp_items, bp_batch_size, bp_i, bp_batch, bp_run, bp_resume, bp_count>>
    /\ UNCHANGED cpVars
    /\ UNCHANGED notBulk

\* the first run is interrupted between two batches; process_items is called
\* again on the same items with a new CheckpointHandler on the same file
Rerun ==
    /\ bp_run = 1
    /\ bp_pc = "loop"
    /\ last_checkpoint' = LoadCheckpoint(cp_file)
    /\ bp_run' = 2
    /\ bp_resume' = ResumePosition(LoadCheckpoint(cp_file))
    /\ bp_i' = FirstIndex(LoadCheckpoint(cp_file))
    /\ bp_batch' = 0
    /\ bp_count' = [k \in 1..bp_items |-> 0]
    /\ UNCHANGED <<cp_file, cp_pc, cp_args, cp_saves, cp_last, cp_cut>>
    /\ UNCHANGED <<bp_items, bp_batch_size, bp_pc>>
    /\ UNCHANGED notBulk

\* ------------------ CSVDataSource.get_issues_missing_creator_group
\* a string is the sequence of its characters; a cell of a row that has
\* fewer cells than the header is None
CellNone == [none |-> TRUE, chars |-> <<>>]
Cell(chars) == [none |-> FALSE, chars |-> chars]

RECURSIVE LStrip(_)
LStrip(chars) ==
    IF chars # <<>> /\ chars[1] = " " THEN LStrip(Tail(chars)) ELSE chars
RECURSIVE RStrip(_)
RStrip(chars) ==
    IF chars # <<>> /\ chars[Len(chars)] = " "
      THEN RStrip(SubSeq(chars, 1, Len(chars) - 1)) ELSE chars

\* str.strip()
Strip(chars) == RStrip(LStrip(chars))

LowerChar(ch) ==
    CASE ch = "N" -> "n" [] ch = "U" -> "u" [] ch = "L" -> "l"
      [] ch = "O" -> "o" [] ch = "E" -> "e" [] ch = "G" -> "g" [] OTHER -> ch

\* str.lower()
Lower(chars) == [k \in 1..Len(chars) |-> LowerChar(chars[k])]

\* ('null', 'none', '')
NullWords == {<<"n", "u", "l", "l">>, <<"n", "o", "n", "e">>, <<>>}

\* not creator_group or creator_group.lower() in ('null', 'none', '')
IsMissing(creator_group) == creator_group = <<>> \/ Lower(creator_group) \in NullWords

CreatorGroupCells ==
    {Cell(<<>>), Cell(<<" ">>), Cell(<<"n", "u", "l", "l">>),
     Cell(<<" ", "N", "U", "L", "L", " ">>), Cell(<<"N", "o", "n", "e">>),
     Cell(<<"G">>), Cell(<<"n", "u", "l", "l", "s">>)}

\* what csv.DictReader makes of a line of 4, 3 or 1 cells under the header
\* issue_id,creator_user_id,assigned_group,creator_group
CsvRows ==
    {[issue_id |-> Cell(<<"I">>), creator_user_id |-> Cell(<<"U", " ">>),
      assigned_group |-> Cell(<<"G">>), creator_group |-> cg] : cg \in CreatorGroupCells}
    \cup {[issue_id |-> Cell(<<"I">>), creator_user_id |-> Cell(<<"U", " ">>),
           assigned_group |-> Cell(<<"G">>), creator_group |-> CellNone],
          [issue_id |-> Cell(<<"I">>), creator_user_id |-> CellNone,
           assigned_group |-> CellNone, creator_group |-> CellNone]}

\* the body of the loop for one row: "issue", "skip", or "error" when the row
\* raises (None has no strip) and is logged and passed over
RowOutcome(row) ==
    IF row.creator_group.none THEN "error"
    ELSE IF ~IsMissing(Strip(row.creator_group.chars)) THEN "skip"
    ELSE IF row.issue_id.none \/ row.creator_user_id.none \/ row.assigned_group.none
      THEN "error"
    ELSE "issue"

\* the Issue built from row number k
IssueOfRow(row, k) ==
    [row |-> k, issue_id |-> Strip(row.issue_id.chars),
     creator_user_id |-> Strip(row.creator_user_id.chars),
     assigned_group |-> Strip(row.assigned_group.chars)]

RECURSIVE ReadRows(_, _)
ReadRows(rows, k) ==
    IF k > Len(rows) THEN <<>>
    ELSE IF RowOutcome(rows[k]) = "issue"
      THEN <<IssueOfRow(rows[k], k)>> \o ReadRows(rows, k + 1)
    ELSE ReadRows(rows, k + 1)

CsvFields ==
    /\ csv_pc = "idle"
    /\ csv_result = <<>>

CsvInit ==
    /\ csv_rows \in UNION {[1..n -> CsvRows] : n \in 1..MaxRows}
    /\ CsvFields

GetIssuesMissingCreatorGroup ==
    /\ csv_pc = "idle"
    /\ csv_result' = ReadRows(csv_rows, 1)
    /\ csv_pc' = "returned"
    /\ UNCHANGED csv_rows
    /\ UNCHANGED notCSV

\* ------------------------- DevRevClient.get_groups behind CircuitBreaker
\* get_groups is the wrapper CircuitBreaker.__call__ returns around the
\* coroutine function: the wrapper is a plain function, runs to its end
\* without an await, and hands the coroutine object to the caller, which
\* awaits it.

\* what func(*args, **kwargs) does inside the wrapper when func is a
\* coroutine function: it returns a coroutine object, whatever the request
\* will do
FuncRaisesInWrapper(answer) == FALSE

GGAnswers == {200, 401, 429, NetError}

\* the request of get_groups fails: 429, 401 or no response
RequestFails(answer) == answer # 200

GGFields ==
    /\ gg_calls = 0
    /\ gg_fails = 0
    /\ gg_requests = 0
    /\ gg_last = "none"

\* await client.get_groups(), the request ending in answer
GetGroups(answer) ==
    /\ gg_calls < MaxGGCalls
    /\ gg_calls' = gg_calls + 1
    /\ LET r == CanExecute IN
        IF ~r.ok
          THEN \* raise Exception("Circuit breaker is OPEN")
               /\ gg_last' = "open_error"
               /\ state' = r.state
               /\ last_state_change' = r.since
               /\ UNCHANGED <<failures, last_failure_time, openedAt, gg_fails, gg_requests>>
        ELSE IF FuncRaisesInWrapper(answer)
          THEN \* on_failure(); raise
               /\ gg_last' = "op_error"
               /\ failures' = failures + 1
               /\ last_failure_time' = cnow
               /\ IF OpenCondition(failures + 1, failure_threshold)
                    THEN /\ state' = "OPEN"
                         /\ last_state_change' = cnow
                         /\ openedAt' = IF r.state = "OPEN" THEN openedAt ELSE cnow
                    ELSE /\ state' = r.state
                         /\ last_state_change' = r.since
                         /\ UNCHANGED openedAt
               /\ gg_fails' = gg_fails + 1
               /\ UNCHANGED gg_requests
        ELSE \* on_success(); return result; the caller awaits result
               /\ IF r.state = "HALF_OPEN"
                    THEN /\ state' = "CLOSED"
                         /\ failures' = ClosedFailures
                         /\ last_state_change' = cnow
                    ELSE /\ state' = r.state
                         /\ last_state_change' = r.since
                         /\ UNCHANGED failures
               /\ gg_requests' = gg_requests + 1
               /\ gg_fails' = IF RequestFails(answer) THEN gg_fails + 1 ELSE 0
               /\ gg_last' = IF RequestFails(answer) THEN "op_error" ELSE "returned"
               /\ UNCHANGED <<last_failure_time, openedAt>>
    /\ UNCHANGED <<failure_threshold, reset_timeout, cnow, cpc, cres, ctrial, cfail0, hist>>
    /\ UNCHANGED notGG

\* time passes between two get_groups calls
GGTick ==
    /\ cnow < MaxCBTime
    /\ cnow' = cnow + 1
    /\ UNCHANGED <<failure_threshold, reset_timeout, failures, state, last_failure_time,
                   last_state_change, cpc, cres, ctrial, cfail0, hist, openedAt>>
    /\ UNCHANGED ggVars
    /\ UNCHANGED notGG

\* ------------------------------------------------------- specifications
\* a component that a specification leaves alone: built, never called
BatchUnused == BatchInit /\ batch_size = 1 /\ max_consecutive_failures = 1
CBUnused == CBInit /\ failure_threshold = 1 /\ reset_timeout = 1
RLUnused == RLInit /\ calls = 1 /\ period = 1
RetryUnused ==
    RetryInit /\ retries = 1 /\ delay = 0 /\ backoff = 1 /\ exceptions = {}
CacheUnused == CacheInit /\ ttl = 1
ClientUnused == ClientInit
IPUnused ==
    /\ ip_issues = <<>> /\ dry_run = FALSE /\ ip_batch_size = 1
    /\ ip_logger = "ContextLogger" /\ ip_metrics = "MetricsCollector"
    /\ IPFields
ValUnused ==
    /\ v_issue = [issue_id |-> PyNone, creator_user_id |-> PyNone, assigned_group |-> PyNone]
    /\ ValFields
CPUnused ==
    /\ cp_file = NoFile
    /\ CPFields
BulkUnused ==
    /\ bp_items = 1 /\ bp_batch_size = 1
    /\ BulkFields
CSVUnused ==
    /\ csv_rows = <<>>
    /\ CsvFields
GGUnused == GGFields
RestUnused == ValUnused /\ CPUnused /\ BulkUnused /\ CSVUnused /\ GGUnused
BFUnused ==
    /\ bf_issues = <<>> /\ bf_dry_run = FALSE /\ bf_batch_size = 1
    /\ bf_max_failures = 1 /\ bf_config = "Config" /\ bf_client = "DevRevClient"
    /\ bf_ready = FALSE /\ user_group_map = {}
    /\ BFFields

\* one BatchProcessor, called MaxRuns times
InitBatch ==
    BatchInit /\ CBUnused /\ RLUnused /\ RetryUnused /\ CacheUnused /\ ClientUnused /\ IPUnused /\ BFUnused
    /\ RestUnused
NextBatch ==
    \/ \E its \in ItemLists : StartCall(its)
    \/ ChunkSucceeds
    \/ ChunkFails
    \/ LoopExit
SpecBatch == InitBatch /\ [][NextBatch]_vars

\* one CircuitBreaker whose wrapped function is called by one thread: calls
\* never overlap
InitCB ==
    CBInit /\ BatchUnused /\ RLUnused /\ RetryUnused /\ CacheUnused /\ ClientUnused /\ IPUnused /\ BFUnused
    /\ RestUnused
NextCB == CBStep(1) \/ CBTick
SpecCB == InitCB /\ [][NextCB]_vars

\* one CircuitBreaker called by one thread for ever: a call is made whenever
\* one can be, each call runs to its end, and time keeps advancing
CBStepLive == CBStep(1) /\ (cpc'[1] = "fail_inc" => failures < MaxFailures)
NextCBLive == CBStepLive \/ CBTickLive
SpecCBLive == InitCB /\ [][NextCBLive]_vars /\ WF_vars(CBStepLive) /\ WF_vars(CBTickLive)

\* one CircuitBreaker whose wrapped function is called by NCallers threads
NextCBConc == (\E c \in CBCallers : CBStep(c)) \/ CBTick
SpecCBConc == InitCB /\ [][NextCBConc]_vars

\* one RateLimiter whose acquire() is called by NTasks tasks
InitRL ==
    RLInit /\ BatchUnused /\ CBUnused /\ RetryUnused /\ CacheUnused /\ ClientUnused /\ IPUnused /\ BFUnused
    /\ RestUnused
NextRL ==
    \/ \E a \in Tasks : RLAcquire(a)
    \/ \E a \in Tasks : RLEnter(a)
    \/ \E a \in Tasks : RLWake(a)
    \/ RLTick
SpecRL == InitRL /\ [][NextRL]_vars

\* the same RateLimiter under the scheduling of the asyncio event loop: the
\* clock advances, a task that was handed the lock runs, a task whose sleep is
\* over resumes
SpecRLFair ==
    /\ InitRL
    /\ [][NextRL]_vars
    /\ WF_vars(RLTick)
    /\ \A a \in Tasks : WF_vars(RLEnter(a)) /\ WF_vars(RLWake(a))

\* one call of a function decorated with async_retry
InitRetry ==
    RetryInit /\ BatchUnused /\ CBUnused /\ RLUnused /\ CacheUnused /\ ClientUnused /\ IPUnused /\ BFUnused
    /\ RestUnused
NextRetry ==
    \/ WrapperCall
    \/ AttemptReturns
    \/ \E k \in ErrKinds, j \in 0..JitterSteps : AttemptRaises(k, j)
    \/ SleepDone
SpecRetry == InitRetry /\ [][NextRetry]_vars

\* one Cache, its operations called one after another
InitCache ==
    CacheInit /\ BatchUnused /\ CBUnused /\ RLUnused /\ RetryUnused /\ ClientUnused /\ IPUnused /\ BFUnused
    /\ RestUnused
NextCache ==
    \/ \E k \in CacheKeys, v \in CacheValues, t \in TTLArgs : CacheSet(k, v, t)
    \/ \E k \in CacheKeys : CacheGet(k)
    \/ CacheClearExpired
    \/ CacheTick
SpecCache == InitCache /\ [][NextCache]_vars

\* one DevRevClient whose get_user_groups is called MaxClientCalls times
InitClient ==
    ClientInit /\ BatchUnused /\ CBUnused /\ RLUnused /\ RetryUnused /\ CacheUnused /\ IPUnused /\ BFUnused
    /\ RestUnused
NextClient ==
    \/ \E ids \in IdLists : GetUserGroupsCached(ids)
    \/ \E ids \in IdLists : \E users \in Responses(ids) : GetUserGroupsFetched(ids, users)
    \/ \E ids \in IdLists : GetUserGroupsFails(ids)
    \/ ClientTick
SpecClient == InitClient /\ [][NextClient]_vars

\* one IssueProcessor, its process_issues called once
InitIP ==
    /\ IPInit
    /\ BatchUnused /\ CBUnused /\ RLUnused /\ RetryUnused /\ CacheUnused /\ ClientUnused
    /\ BFUnused /\ RestUnused
NextIP ==
    \/ ProcessIssues
    \/ TaskStart
    \/ \E k \in 1..Len(ip_issues), answer \in Answers : UpdateResponds(k, answer)
    \/ BatchDone
    \/ GatherRaises
SpecIP == InitIP /\ [][NextIP]_vars

\* the same with an injected logger and injected metrics, for one chunk of up
\* to MaxChunk issues whose updates are all requested and answered 200
InitGate ==
    /\ \E n \in 1..MaxChunk : ip_issues = [k \in 1..n |-> IssueB] /\ ip_batch_size = n
    /\ dry_run = FALSE
    /\ ip_logger = "injected" /\ ip_metrics = "injected"
    /\ IPFields
    /\ BatchUnused /\ CBUnused /\ RLUnused /\ RetryUnused /\ CacheUnused /\ ClientUnused
    /\ BFUnused /\ RestUnused
NextGate ==
    \/ ProcessIssues
    \/ TaskStart
    \/ \E k \in 1..Len(ip_issues) : UpdateResponds(k, 200)
    \/ BatchDone
SpecGate == InitGate /\ [][NextGate]_vars

\* one run of main()
InitBF ==
    /\ BFInit
    /\ BatchUnused /\ CBUnused /\ RLUnused /\ RetryUnused /\ CacheUnused /\ ClientUnused
    /\ IPUnused /\ RestUnused
NextBF ==
    \/ Main
    \/ \E raises \in BOOLEAN : GetUserGroupMap(raises)
    \/ \E outcome \in UpdateOutcomes : ProcessIssue(outcome)
    \/ ProcessIssuesReturns
SpecBF == InitBF /\ [][NextBF]_vars

\* one call of validate_issue
CoreUnused ==
    /\ BatchUnused /\ CBUnused /\ RLUnused /\ RetryUnused /\ CacheUnused /\ ClientUnused
    /\ IPUnused /\ BFUnused

\* one validate_issue call on one issue
InitVal ==
    /\ ValInit
    /\ CoreUnused /\ CPUnused /\ BulkUnused /\ CSVUnused /\ GGUnused
NextVal == Validate
SpecVal == InitVal /\ [][NextVal]_vars

\* one checkpoint file: save_checkpoint calls, each of which the end of the
\* process may cut short, and CheckpointHandlers constructed on the file
InitCP ==
    /\ CPInit
    /\ CoreUnused /\ ValUnused /\ BulkUnused /\ CSVUnused /\ GGUnused
NextCP ==
    \/ \E args \in SaveArgs : SaveCheckpoint(args)
    \/ SaveWrites
    \/ SaveReturns
    \/ Restart
SpecCP == InitCP /\ [][NextCP]_vars

\* process_items with a checkpoint handler, interrupted once and run again
InitBulk ==
    /\ CPInit
    /\ BulkInit
    /\ CoreUnused /\ ValUnused /\ CSVUnused /\ GGUnused
NextBulk ==
    \/ \E ok \in SUBSET (1..MaxBulkItems) : ProcessBatch(ok)
    \/ ProcessItemsReturns
    \/ Rerun
SpecBulk == InitBulk /\ [][NextBulk]_vars

\* one get_issues_missing_creator_group call on one CSV file
InitCSV ==
    /\ CsvInit
    /\ CoreUnused /\ ValUnused /\ CPUnused /\ BulkUnused /\ GGUnused
NextCSV == GetIssuesMissingCreatorGroup
SpecCSV == InitCSV /\ [][NextCSV]_vars

\* the get_groups of one DevRevClient, called MaxGGCalls times
InitGG ==
    /\ failure_threshold = GroupsFailureThreshold
    /\ reset_timeout = GroupsResetTimeout
    /\ failures = 0
    /\ state = "CLOSED"
    /\ last_failure_time = 0 - 1
    /\ last_state_change = 0
    /\ cnow = 0
    /\ cpc = [c \in CBCallers |-> "idle"]
    /\ cres = [c \in CBCallers |-> "none"]
    /\ ctrial = [c \in CBCallers |-> FALSE]
    /\ cfail0 = [c \in CBCallers |-> 0]
    /\ hist = <<>>
    /\ openedAt = 0 - 1
    /\ GGFields
    /\ BatchUnused /\ RLUnused /\ RetryUnused /\ CacheUnused /\ ClientUnused
    /\ IPUnused /\ BFUnused
    /\ ValUnused /\ CPUnused /\ BulkUnused /\ CSVUnused
NextGG ==
    \/ \E answer \in GGAnswers : GetGroups(answer)
    \/ GGTick
SpecGG == InitGG /\ [][NextGG]_vars

\* ------------------------------------------- claims on BatchProcessor
Ceil(n, b) == (n + b - 1) \div b

RECURSIVE ConcatInputs(_)
ConcatInputs(rs) ==
    IF rs = <<>> THEN <<>>
    ELSE ConcatInputs(SubSeq(rs, 1, Len(rs) - 1)) \o rs[Len(rs)].input_items

\* the number of failed chunks at the end of a chunk history
RECURSIVE TrailingFailures(_)
TrailingFailures(h) ==
    IF h = <<>> \/ h[Len(h)] THEN 0
    ELSE 1 + TrailingFailures(SubSeq(h, 1, Len(h) - 1))

\* the outcomes are ceil(N/B) consecutive chunks of the item list, all of
\* batch_size items except possibly the last
Covers ==
    /\ Len(results) = Ceil(Len(items), batch_size)
    /\ ConcatInputs(results) = items
    /\ \A k \in 1..Len(results) :
        /\ Len(results[k].input_items) \in 1..batch_size
        /\ k < Len(results) => Len(results[k].input_items) = batch_size

\* C1 as stated: every process_batch call, however it ends, has produced
\* ceil(N/B) outcomes whose input_items concatenate to the item list.
C1_EveryCallCovers == bpc \in {"returned", "raised"} => Covers

\* C1 amended: a process_batch call that returns (no run of
\* max_consecutive_failures failing chunks aborted it) returns ceil(N/B)
\* outcomes whose input_items, concatenated in order, are the item list, every
\* chunk but possibly the last holding exactly batch_size items.
C1_ReturnedCallCovers == bpc = "returned" => Covers

C1_Witness ==
    /\ bpc = "returned"
    /\ Len(results) >= 2
    /\ Len(items) % batch_size # 0
    /\ \E k \in 1..Len(results) : ~results[k].success

\* C2: the counter is the length of the current run of failed chunks (one up
\* per failing chunk, 0 after a successful one); the call is aborted exactly
\* when a chunk has just failed and that run has reached
\* max_consecutive_failures; process_func has been invoked once per recorded
\* chunk, so on no chunk after the one that aborted the call.
C2_AbortExactlyAtMax ==
    /\ consecutive_failures = TrailingFailures(outcomes)
    /\ invoked = Len(results)
    /\ bpc = "raised" =>
        /\ invoked > 0
        /\ ~results[invoked].success
        /\ results[invoked].input_items = BatchSlice(items, bi, batch_size)
        /\ TrailingFailures(outcomes) >= max_consecutive_failures
    /\ (bpc \in {"loop", "returned"} /\ invoked > 0) =>
        TrailingFailures(outcomes) < max_consecutive_failures

C2_Witness ==
    /\ bpc = "raised"
    /\ \E k \in 1..Len(results) : results[k].success
    /\ invoked < Ceil(Len(items), batch_size)
    /\ consecutive_failures = max_consecutive_failures
    /\ max_consecutive_failures >= 2

\* ------------------------------------------- claims on CircuitBreaker
\* the number of calls at the end of a call history whose operation raised
RECURSIVE TrailingOpErrors(_)
TrailingOpErrors(h) ==
    IF h = <<>> \/ h[Len(h)] # "op_error" THEN 0
    ELSE 1 + TrailingOpErrors(SubSeq(h, 1, Len(h) - 1))

\* none of the first k calls of the history returned
NoneReturned(h, k) == \A j \in 1..k : h[j] # "returned"

\* this step is caller c calling the wrapped function
CallMade(c) ==
    /\ cpc[c] = "idle"
    /\ cpc'[c] = "running" \/ Len(hist') = Len(hist) + 1

\* this step rejects caller c's call and leaves the breaker as it was
Rejected(c) ==
    /\ cpc'[c] = "idle"
    /\ hist' = Append(hist, "open_error")
    /\ cres'[c] = "open_error"
    /\ state' = state
    /\ failures' = failures
    /\ last_state_change' = last_state_change

\* this step admits caller c's call as the trial of an OPEN breaker
AdmittedAsTrial(c) ==
    /\ cpc'[c] = "running"
    /\ state' = "HALF_OPEN"
    /\ hist' = hist

\* C3: on a fresh breaker whose operation raises in every call, each of the
\* first failure_threshold calls ends with the operation's own error, the
\* breaker is CLOSED after fewer than failure_threshold of them and OPEN after
\* the failure_threshold-th.
C3_OpensAtThreshold ==
    cpc[1] = "idle" =>
        /\ \A j \in 1..Len(hist) :
            (j <= failure_threshold /\ NoneReturned(hist, j)) => hist[j] = "op_error"
        /\ (Len(hist) <= failure_threshold /\ NoneReturned(hist, Len(hist))) =>
            state = IF Len(hist) < failure_threshold THEN "CLOSED" ELSE "OPEN"

C3_Witness ==
    /\ cpc[1] = "idle"
    /\ failure_threshold = 2
    /\ hist = <<"op_error", "op_error">>
    /\ state = "OPEN"

\* C4: a call made while the breaker is OPEN and fewer than reset_timeout
\* ticks have passed since it opened is rejected with the circuit-open error,
\* does not reach the wrapped operation, and leaves state, failures and
\* last_state_change as they were.
C4_OpenRejects ==
    [][(CallMade(1) /\ state = "OPEN" /\ cnow - openedAt < reset_timeout)
        => Rejected(1)]_vars

C4_Witness ==
    /\ state = "OPEN"
    /\ cpc[1] = "idle"
    /\ cres[1] = "open_error"
    /\ cnow > openedAt
    /\ cnow - openedAt < reset_timeout

\* C5 as stated: a success observed while CLOSED leaves the failure counter
\* at 0, and the breaker goes CLOSED -> OPEN only when the most recent
\* failure_threshold wrapped calls (the one failing now included) all failed.
C5_OpensOnlyOnConsecutive ==
    [][/\ (cpc[1] = "succ_check" /\ state = "CLOSED" /\ cpc'[1] = "idle")
            => failures' = 0
       /\ (state = "CLOSED" /\ state' = "OPEN")
            => TrailingOpErrors(hist) + 1 >= failure_threshold]_vars

C7_TrialLeavesHalfOpen ==
    cpc[1] = "idle" =>
        /\ state # "HALF_OPEN"
        /\ (ctrial[1] /\ cres[1] = "returned") => (state = "CLOSED" /\ failures = 0)
        /\ (ctrial[1] /\ cres[1] = "op_error") =>
            (state = "OPEN" /\ failures = cfail0[1] + 1 /\ openedAt = last_state_change)

C7_Witness ==
    /\ cpc[1] = "idle"
    /\ failure_threshold = 1
    /\ ctrial[1]
    /\ cres[1] = "op_error"
    /\ hist = <<"op_error", "returned", "op_error", "op_error">>

\* C8 as stated: of the calls admitted as the trial of a HALF_OPEN breaker at
\* most one is inside the wrapped operation at any time.
C8_SingleTrial ==
    Cardinality({c \in CBCallers : cpc[c] = "running" /\ ctrial[c]}) <= 1

\* ---------------------------------------------- claims on RateLimiter
\* the recorded timestamps that lie inside the trailing period at the clock
InWindow == SelectSeq(call_times, LAMBDA t : t > rnow - period)

\* the grants given in the interval of length period that ends at time t
GrantsEndingAt(t) == {k \in 1..Len(grants) : grants[k] > t - period /\ grants[k] <= t}

\* this step is a task running the body of acquire() into its sleep
StartsSleep == \E a \in Tasks : rpc[a] # "sleeping" /\ rpc'[a] = "sleeping"

\* this step is a task returning from acquire() without having slept
GrantsAtOnce ==
    /\ Len(grants') = Len(grants) + 1
    /\ \A a \in Tasks : rpc[a] # "sleeping"

\* C9 as stated: in every interval of length period (open at its start, closed
\* at its end) at most calls acquire() calls return.
C9_AtMostCallsPerPeriod ==
    \A k \in 1..Len(grants) : Cardinality(GrantsEndingAt(grants[k])) <= calls

C11_RecordsGrantTime ==
    [][Len(grants') = Len(grants) + 1 =>
        /\ call_times'[Len(call_times')] = rnow
        /\ Len(InWindow) < calls]_vars

\* the tasks inside the body of acquire(): they own the lock
Inside == {a \in Tasks : rpc[a] \in {"ready", "sleeping"}}

ExclusiveBody ==
    /\ Cardinality(Inside) <= 1
    /\ \A a \in Inside : holder = a
    /\ holder # 0 => holder \in Inside
    /\ \A a \in Tasks : rpc[a] = "waiting" <=> \E k \in 1..Len(waiters) : waiters[k] = a
    /\ holder = 0 => waiters = <<>>

SerialUpdates ==
    /\ (\E a \in Tasks : rpc[a] = "sleeping" /\ rpc'[a] = "sleeping") =>
            /\ call_times' = call_times
            /\ holder' = holder
    /\ (holder # 0 /\ holder' # holder /\ waiters # <<>>) => holder' = Head(waiters)
    /\ IF Len(grants') = Len(grants) + 1
         THEN /\ call_times' # <<>>
              /\ SubSeq(call_times', 1, Len(call_times') - 1) \in {call_times, InWindow}
         ELSE call_times' \in {call_times, InWindow}

\* C12: at most one task is inside the body of acquire() (purge, check, wait,
\* record), and it is the task that holds the lock, also while it sleeps; the
\* other callers queue and get the lock in arrival order; while a task sleeps
\* nobody changes _call_times, and every return appends its timestamp to the
\* list the previous holder left (purged or as it was), so no record is lost.
C12_OneAtATime == []ExclusiveBody /\ [][SerialUpdates]_vars

C12_Witness ==
    \E a, b \in Tasks :
        /\ rpc[a] = "sleeping"
        /\ rpc[b] = "waiting"
        /\ holder = a
        /\ waiters = <<b>>
        /\ rnow < wake[a]

AllEligible == \A n \in 1..Len(errs) : errs[n] \in exceptions

\* C14: func is never invoked more than retries times; a call whose attempts
\* all raised eligible errors has invoked func exactly retries times and raises
\* the error of the last of them; a call that returned did so with the value
\* of its last invocation, all invocations before it having failed.
C14_AtMostRetriesAttempts ==
    /\ invocs <= retries
    /\ (ypc = "raised" /\ AllEligible) =>
            /\ invocs = retries
            /\ Len(errs) = retries
            /\ yres = [kind |-> errs[retries], attempt |-> retries - 1]
    /\ ypc = "returned" =>
            /\ yres = [kind |-> "value", attempt |-> invocs - 1]
            /\ Len(errs) = invocs - 1
    /\ ypc \in {"try", "sleeping"} => (AllEligible /\ Len(errs) = invocs)

C14_Witness ==
    /\ ypc = "raised"
    /\ retries = 3
    /\ exceptions = ErrKinds
    /\ errs = <<"RateLimitError", "RateLimitError", "AuthenticationError">>
    /\ yres = [kind |-> "AuthenticationError", attempt |-> 2]

\* C15: an error that is not in exceptions is raised by the attempt it occurs
\* in: it is the last invocation of the call, the call raises that very error,
\* and the only sleeps made are those after the attempts before it.
C15_OtherErrorPropagates ==
    \A n \in 1..Len(errs) :
        errs[n] \notin exceptions =>
            /\ n = Len(errs)
            /\ invocs = n
            /\ ypc = "raised"
            /\ yres = [kind |-> errs[n], attempt |-> n - 1]
            /\ Len(slept) = n - 1

C15_Witness ==
    /\ ypc = "raised"
    /\ retries = 3
    /\ exceptions = {"RateLimitError"}
    /\ errs = <<"RateLimitError", "AuthenticationError">>
    /\ Len(slept) = 1

\* delay * backoff ** i, in time units
BaseDelay(i) == delay * Pow(backoff, i) * (TimeUnit \div Pow(BackoffDen, i))

\* C16: the n-th sleep of a call follows the failed attempt of index n - 1,
\* which is not the last allowed one, and lasts between delay * backoff^(n-1)
\* and that plus 0.1 * delay; every attempt but the first was preceded by one
\* sleep; with backoff >= 1 the base delay of a sleep is never below that of
\* the sleep before it.
C16_SleepBounds ==
    /\ \A n \in 1..Len(slept) :
        /\ slept[n].attempt = n - 1
        /\ n - 1 < retries - 1
        /\ slept[n].time >= BaseDelay(n - 1)
        /\ 10 * slept[n].time <= 10 * BaseDelay(n - 1) + delay * TimeUnit
        /\ (n > 1 /\ backoff >= BackoffDen) => BaseDelay(n - 1) >= BaseDelay(n - 2)
    /\ ypc = "try" => Len(slept) = attempt
    /\ ypc = "sleeping" => Len(slept) = attempt + 1
    /\ ypc \in {"returned", "raised"} => Len(slept) = invocs - 1

C16_Witness ==
    /\ ypc = "raised"
    /\ retries = 3
    /\ delay = 2
    /\ backoff = 3
    /\ Len(slept) = 2
    /\ slept[1].time = BaseDelay(0) + Jitter(delay, JitterSteps)
    /\ slept[2].time = BaseDelay(1)

\* ---------------------------------------------------- claims on Cache
\* C17 as stated: a get(k) made right after set(k, v, ttl=0) returns None.
C17_ZeroTTLExpiresAtOnce ==
    [][(kop.op = "set" /\ kop.ttl = 0 /\ kop'.op = "get" /\ kop'.key = kop.key)
        => kgot' = None]_vars

\* C18: a stored entry is the one the most recent set of its key made, and a
\* key whose most recent set is no longer stored had expired (get and
\* clear_expired remove nothing else and change nothing); right after get(k),
\* it returned the value of the most recent set(k) if the clock is not past
\* that entry's expiry and None otherwise, and k is not stored if it is past.
C18_GetReturnsLiveValue ==
    /\ \A k \in DOMAIN store : k \in DOMAIN recent /\ store[k] = recent[k]
    /\ \A k \in DOMAIN recent \ DOMAIN store : know > recent[k].expiry
    /\ kop.op = "get" =>
        IF kop.key \in DOMAIN recent /\ know <= recent[kop.key].expiry
          THEN kgot = Some(recent[kop.key].value) /\ kop.key \in DOMAIN store
          ELSE kgot = None /\ kop.key \notin DOMAIN store
    /\ kop.op = "clear_expired" => \A k \in DOMAIN store : know <= store[k].expiry

C18_Witness ==
    /\ kop.op = "get"
    /\ kgot = None
    /\ kop.key \in DOMAIN recent
    /\ kop.key \notin DOMAIN store
    /\ DOMAIN store # {}

\* ------------------------------ claims on DevRevClient.get_user_groups
\* this step is a get_user_groups call for an id set fetched with success
\* less than the cache TTL ago
CallWithinTTL ==
    /\ gcalls' = gcalls + 1
    /\ {gids'[i] : i \in 1..Len(gids')} \in DOMAIN fetched
    /\ gnow - fetched[{gids'[i] : i \in 1..Len(gids')}] < ClientCacheTTL

Count(P(_)) == Cardinality({k \in 1..Len(ip_issues) : P(ip_issues[k])})

Invalid(issue) == ~IsValid(issue)
NoGroup(issue) == IsValid(issue) /\ GroupOf(issue, group_map) = "None"
Updatable(issue) == IsValid(issue) /\ GroupOf(issue, group_map) # "None"
AssignedKnown(issue) == issue.assigned_group \in group_map

UpdatesInFlight == {k \in 1..Len(ip_issues) : task_pc[k] = "inflight"}

\* C21: in a dry run no works.update request is ever sent and no update call
\* reports failure: every call returns True, so a finished dry run counts
\* every issue it called the update for as successful.
C21_DryRunSendsNothing ==
    dry_run =>
        /\ sent = 0
        /\ bad_updates = 0
        /\ UpdatesInFlight = {}
        /\ last_update \in {NoUpdate, [answer |-> 0, attempts |-> 1, result |-> Returned(TRUE)]}
        /\ ip_pc = "returned" => stats.successful_updates = Count(Updatable)

C21_Witness ==
    /\ dry_run
    /\ ip_pc = "returned"
    /\ ip_issues = <<IssueB, IssueD, IssueB>>
    /\ stats.successful_updates = 2
    /\ sent = 0

\* C22 as stated: an update call whose last answer was 429 ended by raising,
\* after the retry policy had used all its StopAfterAttempt attempts.
C22_RateLimitRetried ==
    last_update.answer = 429 =>
        /\ last_update.attempts = StopAfterAttempt
        /\ last_update.result.kind = "raised"

\* C23 as stated: an update call answered 401 raises AuthenticationError, and
\* once an update request was answered 401 no further update request is sent.
C23_AuthFailureAborts ==
    [][/\ last_update'.answer = 401 => last_update'.result = Raised("AuthenticationError")
       /\ saw401 => sent' = sent]_vars

\* C24 as stated: an update call answered 404 or 403 returns False, it does
\* not raise; no failure of one issue makes process_issues raise; a run ends
\* with every issue processed and counted once, the failed count being the
\* invalid issues, the issues without a group and the update calls that
\* reported failure.
C24_RecordFailuresAreCounted ==
    /\ last_update.answer \in {403, 404} => last_update.result = Returned(FALSE)
    /\ ip_pc \in {"idle", "gather", "returned"}
    /\ ip_pc = "returned" =>
        /\ \A k \in 1..Len(ip_issues) : task_pc[k] = "done"
        /\ stats.total_processed = Len(ip_issues)
        /\ ip_result = stats
        /\ stats.failed_updates = Count(Invalid) + Count(NoGroup) + bad_updates
        /\ stats.successful_updates = Count(Updatable) - bad_updates

\* C25 as stated: at most SemaphoreValue update calls are in flight at any
\* time.
C25_InFlightWithinGate == Cardinality(UpdatesInFlight) <= SemaphoreValue

\* the chunk issue k belongs to, counted from 0
ChunkIndex(k) == (k - 1) \div ip_batch_size

\* C26: a task of a chunk has started only if every task of every earlier
\* chunk has finished, whatever the order in which the update calls of one
\* chunk complete.
C26_ChunksInOrder ==
    \A j, k \in 1..Len(ip_issues) :
        (ChunkIndex(j) < ChunkIndex(k) /\ task_pc[k] # "pending") => task_pc[j] = "done"

C26_Witness ==
    /\ ip_batch_size = 2
    /\ ip_issues = <<IssueB, IssueB, IssueB>>
    /\ task_pc = <<"inflight", "done", "pending">>

\* C27 as stated: a finished run has counted every valid issue without a
\* resolved group as skipped, and as nothing else.
C27_NoGroupIsSkipped ==
    ip_pc = "returned" =>
        /\ stats.total_processed = Len(ip_issues)
        /\ stats.skipped_updates = Count(NoGroup)
        /\ stats.failed_updates = Count(Invalid) + bad_updates

\* C29 as stated: over valid issues and with every update call returning
\* True, the result counts every issue as processed, the issues whose
\* assigned_group is among the fetched groups as successful and the others as
\* failed.
C29_TestCounts ==
    (ip_pc = "returned" /\ Count(Invalid) = 0 /\ bad_updates = 0) =>
        /\ ip_result.total_processed = Len(ip_issues)
        /\ ip_result.successful_updates = Count(AssignedKnown)
        /\ ip_result.failed_updates = Len(ip_issues) - Count(AssignedKnown)

CountersBalance ==
    /\ stats.total_processed = stats.successful_updates + stats.failed_updates
                                    + stats.skipped_updates + Cardinality(UpdatesInFlight)
    /\ stats.total_processed <= Len(ip_issues)

CountersGrow ==
    LET settled(st) == st.successful_updates + st.failed_updates + st.skipped_updates
    IN  /\ stats'.total_processed - stats.total_processed \in {0, 1}
        /\ settled(stats') - settled(stats) \in {0, 1}
        /\ stats'.successful_updates >= stats.successful_updates
        /\ stats'.failed_updates >= stats.failed_updates
        /\ stats'.skipped_updates >= stats.skipped_updates

\* C30 as stated: no counter ever decreases; a step adds at most 1 to the total and at
\* most 1 to the three outcome counters together; the total is the sum of the
\* outcome counters plus the issues whose update call is in flight, so the
\* two are equal whenever no issue is mid-processing.
C30_CountersConsistent == []CountersBalance /\ [][CountersGrow]_vars

Absent(v) == v = PyNone \/ v = PyStr("")

Contains(seq, x) == \E i \in 1..Len(seq) : seq[i] = x

\* C31: validate_issue always returns a result, in which is_valid is true
\* exactly when errors is empty; an empty or missing issue id makes the issue
\* invalid with 'Issue ID is required', an empty or missing creator user id
\* with 'Creator user ID is required'; a missing assigned_group adds a warning
\* and no error, so that an issue with both ids is valid without it.
C31_ValidIffNoErrors ==
    v_pc = "returned" =>
        /\ v_result.is_valid = (v_result.errors = <<>>)
        /\ Absent(v_issue.issue_id) =>
               (~v_result.is_valid /\ Contains(v_result.errors, "Issue ID is required"))
        /\ Absent(v_issue.creator_user_id) =>
               (~v_result.is_valid /\ Contains(v_result.errors, "Creator user ID is required"))
        /\ Absent(v_issue.assigned_group) =>
               /\ Contains(v_result.warnings, "Assigned group is missing")
               /\ ~Contains(v_result.errors, "Assigned group is missing")
               /\ v_result.is_valid = /\ v_issue.issue_id = PyStr("TEST-1")
                                      /\ v_issue.creator_user_id \in {PyStr("USER-1"), PyInt(7)}

C31_Witness ==
    /\ v_pc = "returned"
    /\ v_issue = [issue_id |-> PyStr(""), creator_user_id |-> PyStr("USER-1"),
                  assigned_group |-> PyStr("GROUP-1")]
    /\ ~v_result.is_valid
    /\ v_result.errors = <<"Issue ID is required">>

\* ---------------------------------- claims on CheckpointHandler
\* the items on which the call with arguments args succeeded
SucceededItems(args) ==
    {args.results[i].item : i \in {j \in 1..Len(args.results) : args.results[j].success}}

\* checkpoint is the complete checkpoint of the save_checkpoint call with
\* arguments args
IsCheckpointOf(checkpoint, args) ==
    /\ checkpoint.some
    /\ checkpoint.value.batch_num = args.batch_num
    /\ checkpoint.value.items_processed = args.items_processed
    /\ {checkpoint.value.results[i] : i \in 1..Len(checkpoint.value.results)}
         = SucceededItems(args)
    /\ Len(checkpoint.value.results) = Cardinality(SucceededItems(args))

\* C32: after any sequence of save_checkpoint calls that returned, a
\* CheckpointHandler newly constructed on the file holds the batch number,
\* the position and the successful results of the last call and nothing of
\* an earlier one, and get_resume_position() is the items_processed of the
\* last call; it is 0 when the file is missing or cannot be parsed.
C32_LastSaveIsLoaded ==
    (cp_pc = "idle" /\ ~cp_cut) =>
        /\ last_checkpoint = LoadCheckpoint(cp_file)
        /\ IF cp_last.some
             THEN /\ IsCheckpointOf(LoadCheckpoint(cp_file), cp_last.value)
                  /\ ResumePosition(LoadCheckpoint(cp_file)) = cp_last.value.items_processed
             ELSE /\ LoadCheckpoint(cp_file) = None
                  /\ ResumePosition(LoadCheckpoint(cp_file)) = 0

C32_Witness ==
    /\ cp_pc = "idle" /\ ~cp_cut
    /\ cp_saves = 2
    /\ cp_last.some
    /\ cp_last.value.items_processed = 1
    /\ cp_last.value.results = <<ItemResult(2, FALSE), ItemResult(3, TRUE)>>
    /\ last_checkpoint = LoadCheckpoint(cp_file)
    /\ last_checkpoint.value.results = <<3>>

\* C39: when the process ends inside save_checkpoint, a CheckpointHandler
\* constructed afterwards holds the complete checkpoint of the call that was
\* cut or that of the last call that returned, so that the position an
\* earlier call had persisted is not lost.
C39_InterruptedSaveKeepsCheckpoint ==
    (cp_pc = "idle" /\ cp_cut /\ cp_last.some) =>
        \/ IsCheckpointOf(last_checkpoint, cp_last.value)
        \/ IsCheckpointOf(last_checkpoint, cp_args)

CreatorGroupMissing(row) ==
    \/ row.creator_group.none
    \/ Strip(row.creator_group.chars) = <<>>
    \/ Lower(Strip(row.creator_group.chars)) \in {<<"n", "u", "l", "l">>, <<"n", "o", "n", "e">>}

MissingRows == {k \in 1..Len(csv_rows) : CreatorGroupMissing(csv_rows[k])}

\* C35: get_issues_missing_creator_group returns, in the order of the file,
\* the rows whose creator_group is missing and no other row.
C35_ReturnsMissingRows ==
    csv_pc = "returned" =>
        /\ {csv_result[i].row : i \in 1..Len(csv_result)} = MissingRows
        /\ \A i, j \in 1..Len(csv_result) : i < j => csv_result[i].row < csv_result[j].row

\* ------------------------------ claims on the integrity pass
\* C40: whatever the updates did, the integrity pass of process_issues,
\* which a run that is not a dry run makes when its batches are done, gives
\* verify_updates the issue list on both sides and gets passed = true with no
\* mismatch.
C40_IntegrityAlwaysPasses ==
    /\ integrity_result.some =>
          /\ integrity_result.value.passed
          /\ integrity_result.value.mismatches = 0
          /\ integrity_result.value.details.matched = Len(bf_issues)
    /\ integrity_result.some = (bf_result # NoResult /\ ~bf_dry_run)

C40_Witness ==
    /\ bf_pc = "exited"
    /\ integrity_result.some
    /\ integrity_result.value.passed
    /\ failed_calls > 0
    /\ batches_failed > 0
    /\ exit_status = 1

\* ------------------------------ more claims on BatchProcessor
\* the step is the start of a process_batch call
CallStarts == runs' = runs + 1

\* the step is the first chunk of a call, and it fails
FirstChunkFails == results = <<>> /\ Len(results') = 1 /\ ~results'[1].success

\* C38: the start of a process_batch call leaves the counter of the
\* instance as the call before left it, so that the failed chunks at the end
\* of one call and at the start of the next make one run: the first failing
\* chunk of a call raises when that run reaches max_consecutive_failures, as
\* it does after a call that raised.
C38_CounterOutlivesCall ==
    [][/\ CallStarts => consecutive_failures' = consecutive_failures
       /\ FirstChunkFails =>
             /\ consecutive_failures' = TrailingFailures(outcomes')
             /\ (bpc' = "raised") = (TrailingFailures(outcomes') >= max_consecutive_failures)
       /\ (FirstChunkFails /\ Len(outcomes) > 0 /\ bpc' = "raised"
              /\ TrailingFailures(outcomes) >= max_consecutive_failures)
             => consecutive_failures' > max_consecutive_failures]_vars

C38_Witness ==
    /\ runs = 2
    /\ bpc = "raised"
    /\ Len(results) = 1
    /\ consecutive_failures = max_consecutive_failures + 1
    /\ Len(outcomes) = max_consecutive_failures + 1

\* ------------------------------ more claims on CircuitBreaker
\* no caller is inside on_success or on_failure
NoneInHandler == \A c \in CBCallers : cpc[c] \in {"idle", "running"}

\* C36: whenever no call is inside on_success or on_failure, also after
\* the handlers of calls that ended together have interleaved, a CLOSED
\* breaker has fewer failures than failure_threshold and an OPEN or
\* HALF_OPEN one has failure_threshold or more.
C36_StateMatchesFailures ==
    NoneInHandler =>
        /\ state = "CLOSED" => failures < failure_threshold
        /\ state \in {"OPEN", "HALF_OPEN"} => failures >= failure_threshold

\* C37: when calls keep arriving, time keeps advancing and the wrapped
\* function raises in no call from some point on, a breaker that is OPEN or
\* HALF_OPEN is CLOSED again later.
C37_OpenBreakerCloses ==
    (<>[][~FuncRaises(1)]_vars) => ((state \in {"OPEN", "HALF_OPEN"}) ~> (state = "CLOSED"))

C37_Witness ==
    /\ state = "CLOSED"
    /\ openedAt >= 0
    /\ cres[1] = "returned"
    /\ cpc[1] = "idle"
    /\ failures = 0

\* ------------------------------------ claims on DevRevClient.get_groups
\* C34: after failure_threshold get_groups calls in a row whose request
\* failed the breaker is OPEN, and a call made while it is OPEN and the reset
\* timeout has not passed sends no request.
C34_BreakerCountsFailures ==
    gg_fails >= failure_threshold => state = "OPEN"

====
